---------------------------- MODULE Spec2Model ----------------------------
(***************************************************************************)
(* Echotome: a model of the session manager (echotome/sessions.py), the    *)
(* AEAD envelope (echotome/crypto_core.py), the temporal salt chain        *)
(* (echotome/temporal_salt_chain.py), ritual certificates, recovery codes, *)
(* vault migration, the PNG steganography, the unlock pipeline and the     *)
(* construction of the session manager on its directory.                   *)
(*                                                                         *)
(* Time is counted in whole seconds.  Every API call of the session        *)
(* manager is a frame on the calling thread's stack: the frame first waits *)
(* at "lock" for the manager's threading.Lock (not reentrant), then runs   *)
(* its body.  A body that calls another locking method pushes a new frame, *)
(* which again waits at "lock".                                            *)
(***************************************************************************)
EXTENDS Integers, Sequences, FiniteSets, TLC

VARIABLES
    now,        \* time.time()
    nextId,     \* number of session ids generated so far, plus one
    objs,       \* the Session objects ever created, by session id
    live,       \* keys of SessionManager._sessions
    dirs,       \* session ids whose directory SESSIONS_DIR/<id> exists
    heap,       \* contents of the bytes object passed as master_key, by session id
    lock,       \* SessionManager._lock: "free" or the thread holding it
    stack,      \* per thread: the frames of the calls in progress (innermost last)
    last,       \* the most recent completed top-level call and its result
    blob,       \* AEAD: the EncryptedBlob last written
    aeadIn,     \* AEAD: the inputs of the last encrypt_bytes call
    aeadOut,    \* AEAD: the result of the last decrypt_bytes call
    tsc,        \* the TemporalHashStreamer object
    tscOut,     \* the last call on the streamer and its outcome
    roc,        \* the RitualCertificate object under verification
    rocOut,     \* the last verify_ritual_certificate call and its result
    rec,        \* the RecoveryConfig object of a vault
    recT,       \* per caller: its validate_and_mark_used call in progress or last returned
    mig,        \* migration: the vault dictionaries, the nested dictionaries they refer to, the calls made
    png,        \* stego: the carrier, the payload and the image embed_payload_in_png returned
    pngOut,     \* stego: the result of the last extract_payload_from_png call
    unl,        \* unlock: the errors of the last two failed decrypt_with_echotome calls
    fs,         \* the sessions root on disk: its mode, its entries, and whether a SessionManager was constructed on it
    perm,       \* compute_temporal_hash: a frame sequence, a permutation of it, and the hash of each
    logd,       \* privacy: the record last given to sanitize_log_data and the record it returned
    sdir,       \* a session directory with its files, and the file operations end_session made on it
    kdf,        \* AF-KDF: a passphrase, a profile, two feature vectors and the key derive_final_key gave for each
    strm,       \* a TemporalHashStreamer, the frames fed to it in order, and what its finalize returned
    rituals     \* the files of RITUALS_DIR by rune id, and what the last lookup by audio hash returned

sessVars == <<now, nextId, objs, live, dirs, heap, lock, stack, last>>
aeadVars == <<blob, aeadIn, aeadOut>>
vars == <<now, nextId, objs, live, dirs, heap, lock, stack, last, blob, aeadIn, aeadOut, tsc, tscOut, roc, rocOut, rec, recT, mig, png, pngOut, unl, fs, perm, logd, sdir, kdf, strm, rituals>>

-----------------------------------------------------------------------------
(* Bounds of the model *)

MaxSessions == 1
MaxNow == 2

Threads == {"t1"}
Profiles == {"Quick Lock", "Ritual Lock", "Black Vault", "Custom"}
VaultIds == {"vault_a"}
TtlInputs == {-1, 1, 3600, 10000}
ExtendInputs == {30, 3600}
KeyInputs == {<<7, 9>>}
SidInputs == 1..MaxSessions

Min(a, b) == IF a < b THEN a ELSE b
Max(a, b) == IF a > b THEN a ELSE b

-----------------------------------------------------------------------------
(* SessionConfig.for_profile *)

QuickDefaultTtl == 1800
QuickMaxTtl == 7200
RitualDefaultTtl == 900
RitualMaxTtl == 3600
BlackDefaultTtl == 300
BlackMaxTtl == 900
FallbackDefaultTtl == 900
FallbackMaxTtl == 3600

ForProfile(profile_name) ==
    IF profile_name = "Quick Lock" THEN
        [default_ttl_seconds |-> QuickDefaultTtl, max_ttl_seconds |-> QuickMaxTtl,
         auto_lock_on_background |-> FALSE, allow_external_apps |-> TRUE,
         secure_delete |-> FALSE]
    ELSE IF profile_name = "Ritual Lock" THEN
        [default_ttl_seconds |-> RitualDefaultTtl, max_ttl_seconds |-> RitualMaxTtl,
         auto_lock_on_background |-> FALSE, allow_external_apps |-> TRUE,
         secure_delete |-> TRUE]
    ELSE IF profile_name = "Black Vault" THEN
        [default_ttl_seconds |-> BlackDefaultTtl, max_ttl_seconds |-> BlackMaxTtl,
         auto_lock_on_background |-> TRUE, allow_external_apps |-> FALSE,
         secure_delete |-> TRUE]
    ELSE
        [default_ttl_seconds |-> FallbackDefaultTtl, max_ttl_seconds |-> FallbackMaxTtl,
         auto_lock_on_background |-> FALSE, allow_external_apps |-> TRUE,
         secure_delete |-> TRUE]

-----------------------------------------------------------------------------
(* Session *)

NoKey == 0     \* master_key is None; otherwise the id of the bytes object held

IsExpired(s, t) == t > s.expires_at

TimeRemaining(s, t) == Max(0, s.expires_at - t)

Touch(s, t) == [s EXCEPT !.last_activity = t]

Extend(s, additional_seconds, max_ttl, t) ==
    LET current_remaining == TimeRemaining(s, t)
        new_remaining == Min(current_remaining + additional_seconds, max_ttl)
    IN [s EXCEPT !.expires_at = t + new_remaining]


-----------------------------------------------------------------------------
(* SessionManager: calls, the mutex and the call stack *)

Free == "free"
None == 0      \* a call's result: no session
Raised == -1   \* a call's result: an exception left the call

Frame(fn, sid, arg) ==
    [fn |-> fn, pc |-> "lock", sid |-> sid, arg |-> arg, given |-> FALSE,
     secure |-> TRUE, profile |-> "", vault |-> "", key |-> <<>>,
     ids |-> <<>>, n |-> 0, r |-> 0]

NoCall ==
    [t |-> "", fn |-> "", sid |-> 0, arg |-> 0, given |-> FALSE, secure |-> TRUE,
     profile |-> "", vault |-> "", key |-> <<>>, res |-> 0, lst |-> <<>>, at |-> 0]

Top(t) == stack[t][Len(stack[t])]

Running(t, fn) ==
    /\ stack[t] # <<>>
    /\ Top(t).fn = fn
    /\ Top(t).pc \in {"body", "resume"}

RECURSIVE SetToSeq(_)
SetToSeq(S) ==
    IF S = {} THEN <<>>
    ELSE LET m == CHOOSE x \in S : \A y \in S : x <= y
         IN <<m>> \o SetToSeq(S \ {m})

(* The calls a client can make, with their inputs. *)
ApiCalls ==
    {[Frame("create_session", 0, ttl) EXCEPT
          !.given = g, !.profile = p, !.vault = v, !.key = k] :
        ttl \in TtlInputs, g \in {TRUE}, p \in Profiles, v \in VaultIds, k \in KeyInputs}
    \cup {[Frame("create_session", 0, 0) EXCEPT !.profile = p, !.vault = v, !.key = k] :
        p \in Profiles, v \in VaultIds, k \in KeyInputs}
    \cup {Frame("get_session", sid, 0) : sid \in SidInputs}
    \cup {[Frame("get_session_by_vault", 0, 0) EXCEPT !.vault = v] : v \in VaultIds}
    \cup {[Frame("end_session", sid, 0) EXCEPT !.secure = sd] :
        sid \in SidInputs, sd \in BOOLEAN}
    \cup {Frame("extend_session", sid, a) : sid \in SidInputs, a \in ExtendInputs}
    \cup {Frame("cleanup_expired_sessions", 0, 0),
          Frame("list_active_sessions", 0, 0),
          Frame("end_all_sessions", 0, 0)}

(* A thread that is in no call makes one: the frame waits for the mutex. *)
Call(t) ==
    /\ stack[t] = <<>>
    /\ \E f \in ApiCalls :
        /\ f.fn = "create_session" => nextId <= MaxSessions
        /\ stack' = [stack EXCEPT ![t] = <<f>>]
    /\ last' = NoCall
    /\ UNCHANGED <<now, nextId, objs, live, dirs, heap, lock, blob, aeadIn, aeadOut, tsc, tscOut, roc, rocOut, rec, recT, mig, png, pngOut, unl, fs, perm, logd, sdir, kdf, strm, rituals>>

(* "with self._lock:" entered: threading.Lock is granted only when nobody, *)
(* the calling thread included, holds it.                                  *)
Acquire(t) ==
    /\ stack[t] # <<>>
    /\ Top(t).pc = "lock"
    /\ lock = Free
    /\ lock' = t
    /\ stack' = [stack EXCEPT ![t][Len(stack[t])].pc = "body"]
    /\ UNCHANGED <<now, nextId, objs, live, dirs, heap, last, blob, aeadIn, aeadOut, tsc, tscOut, roc, rocOut, rec, recT, mig, png, pngOut, unl, fs, perm, logd, sdir, kdf, strm, rituals>>

(* The innermost call of t pushes a call to another method of the manager. *)
Push(t, f, callee) ==
    stack' = [stack EXCEPT ![t] =
                 SubSeq(stack[t], 1, Len(stack[t]) - 1) \o <<[f EXCEPT !.pc = "call"], callee>>]

(* The innermost call of t leaves its "with self._lock:" block with result   *)
(* res: the mutex is released (releasing an unlocked Lock raises), the frame *)
(* is popped and the result goes to the caller's frame or to the client.     *)
Return(t, res, lst) ==
    LET f == Top(t)
        n == Len(stack[t])
        out == IF lock = Free THEN Raised ELSE res
    IN /\ lock' = Free
       /\ IF n = 1
          THEN /\ stack' = [stack EXCEPT ![t] = <<>>]
               /\ last' = [t |-> t, fn |-> f.fn, sid |-> f.sid, arg |-> f.arg,
                           given |-> f.given, secure |-> f.secure, profile |-> f.profile,
                           vault |-> f.vault, key |-> f.key, res |-> out, lst |-> lst,
                           at |-> now]
          ELSE /\ stack' = [stack EXCEPT ![t] =
                               SubSeq(stack[t], 1, n - 2)
                               \o <<[stack[t][n - 1] EXCEPT !.pc = "resume", !.r = out]>>]
               /\ UNCHANGED last

-----------------------------------------------------------------------------
(* SessionManager: the bodies *)

(* _generate_session_id: a SHA-256 over vault id, time and 16 random bytes; *)
(* the model hands out the ids 1, 2, ... in the order of creation.          *)
GenerateSessionId == nextId

(* create_session, lines 177-181: "Determine TTL" *)
SessionTtlUnclamped(given, ttl_seconds, config) ==
    IF ~given THEN config.default_ttl_seconds ELSE ttl_seconds

SessionTtl(given, ttl_seconds, config) ==
    IF ~given THEN config.default_ttl_seconds
    ELSE Min(ttl_seconds, config.max_ttl_seconds)

CreateSession(t) ==
    /\ Running(t, "create_session")
    /\ LET f == Top(t)
           config == ForProfile(f.profile)
           ttl == SessionTtl(f.given, f.arg, config)
           session_id == GenerateSessionId
           session == [vault_id |-> f.vault, profile |-> f.profile,
                       created_at |-> now, expires_at |-> now + ttl,
                       last_activity |-> now, master_key |-> session_id]
       IN /\ nextId' = nextId + 1
          /\ dirs' = dirs \cup {session_id}
          /\ heap' = (session_id :> f.key) @@ heap
          /\ objs' = (session_id :> session) @@ objs
          /\ live' = live \cup {session_id}
          /\ Return(t, session_id, <<>>)
    /\ UNCHANGED <<now, blob, aeadIn, aeadOut, tsc, tscOut, roc, rocOut, rec, recT, mig, png, pngOut, unl, fs, perm, logd, sdir, kdf, strm, rituals>>

GetSession(t) ==
    /\ Running(t, "get_session")
    /\ LET f == Top(t) IN
       IF f.pc = "resume" THEN
            \* end_session came back: return None
            /\ Return(t, IF f.r = Raised THEN Raised ELSE None, <<>>)
            /\ UNCHANGED objs
       ELSE IF f.sid \notin live THEN
            /\ Return(t, None, <<>>)
            /\ UNCHANGED objs
       ELSE IF IsExpired(objs[f.sid], now) THEN
            \* self.end_session(session_id), with the mutex held
            /\ Push(t, f, Frame("end_session", f.sid, 0))
            /\ UNCHANGED <<objs, lock, last>>
       ELSE
            /\ objs' = [objs EXCEPT ![f.sid] = Touch(@, now)]
            /\ Return(t, f.sid, <<>>)
    /\ UNCHANGED <<now, nextId, live, dirs, heap, blob, aeadIn, aeadOut, tsc, tscOut, roc, rocOut, rec, recT, mig, png, pngOut, unl, fs, perm, logd, sdir, kdf, strm, rituals>>

GetSessionByVault(t) ==
    /\ Running(t, "get_session_by_vault")
    /\ LET f == Top(t)
           hits == {sid \in live : /\ objs[sid].vault_id = f.vault
                                   /\ ~IsExpired(objs[sid], now)}
           first == CHOOSE sid \in hits : \A other \in hits : sid <= other
       IN IF hits = {} THEN
               /\ Return(t, None, <<>>)
               /\ UNCHANGED objs
          ELSE /\ objs' = [objs EXCEPT ![first] = Touch(@, now)]
               /\ Return(t, first, <<>>)
    /\ UNCHANGED <<now, nextId, live, dirs, heap, blob, aeadIn, aeadOut, tsc, tscOut, roc, rocOut, rec, recT, mig, png, pngOut, unl, fs, perm, logd, sdir, kdf, strm, rituals>>

(* end_session, lines 260-264.  bytes objects are immutable: the zero-filled *)
(* value is a new object bound to the attribute, and the next statement      *)
(* drops it again.  The object that held the key is not written.             *)
WipeMasterKey(s, h) ==
    IF s.master_key # NoKey /\ h[s.master_key] # <<>>
    THEN [s EXCEPT !.master_key = NoKey]
    ELSE s

HeapAfterWipe(s, h) == h

(* end_session, lines 267-276: the directory is removed, by                  *)
(* _secure_delete_directory or by shutil.rmtree.                             *)
RemoveSessionDir(d, sid, secure_delete) == d \ {sid}

EndSession(t) ==
    /\ Running(t, "end_session")
    /\ LET f == Top(t) IN
       IF f.sid \notin live THEN
            /\ Return(t, None, <<>>)
            /\ UNCHANGED <<objs, heap, dirs, live>>
       ELSE /\ objs' = [objs EXCEPT ![f.sid] = WipeMasterKey(@, heap)]
            /\ heap' = HeapAfterWipe(objs[f.sid], heap)
            /\ dirs' = RemoveSessionDir(dirs, f.sid, f.secure)
            /\ live' = live \ {f.sid}
            /\ Return(t, None, <<>>)
    /\ UNCHANGED <<now, nextId, blob, aeadIn, aeadOut, tsc, tscOut, roc, rocOut, rec, recT, mig, png, pngOut, unl, fs, perm, logd, sdir, kdf, strm, rituals>>

ExtendSession(t) ==
    /\ Running(t, "extend_session")
    /\ LET f == Top(t) IN
       IF f.pc = "body" THEN
            \* session = self.get_session(session_id), with the mutex held
            /\ Push(t, f, Frame("get_session", f.sid, 0))
            /\ UNCHANGED <<objs, lock, last>>
       ELSE IF f.r = Raised THEN
            /\ Return(t, Raised, <<>>)
            /\ UNCHANGED objs
       ELSE IF f.r = None THEN
            /\ Return(t, 0, <<>>)
            /\ UNCHANGED objs
       ELSE LET config == ForProfile(objs[f.sid].profile) IN
            /\ objs' = [objs EXCEPT ![f.sid] = Extend(@, f.arg, config.max_ttl_seconds, now)]
            /\ Return(t, 1, <<>>)
    /\ UNCHANGED <<now, nextId, live, dirs, heap, blob, aeadIn, aeadOut, tsc, tscOut, roc, rocOut, rec, recT, mig, png, pngOut, unl, fs, perm, logd, sdir, kdf, strm, rituals>>

ExpiredIds == SetToSeq({sid \in live : IsExpired(objs[sid], now)})

(* The loop "for session_id in ids: self.end_session(session_id)" of          *)
(* cleanup_expired_sessions and end_all_sessions; result is what the method   *)
(* returns after the loop.                                                    *)
EndEach(t, all, result) ==
    LET f == Top(t)
        ids == IF f.pc = "body" THEN all ELSE f.ids
        n == IF f.pc = "body" THEN Len(all) ELSE f.n
    IN IF f.pc = "resume" /\ f.r = Raised THEN
            Return(t, Raised, <<>>)
       ELSE IF ids = <<>> THEN
            Return(t, IF result = "count" THEN n ELSE None, <<>>)
       ELSE /\ Push(t, [f EXCEPT !.ids = Tail(ids), !.n = n],
                    Frame("end_session", Head(ids), 0))
            /\ UNCHANGED <<lock, last>>

CleanupExpiredSessions(t) ==
    /\ Running(t, "cleanup_expired_sessions")
    /\ EndEach(t, ExpiredIds, "count")
    /\ UNCHANGED <<now, nextId, objs, live, dirs, heap, blob, aeadIn, aeadOut, tsc, tscOut, roc, rocOut, rec, recT, mig, png, pngOut, unl, fs, perm, logd, sdir, kdf, strm, rituals>>

ListActiveSessions(t) ==
    /\ Running(t, "list_active_sessions")
    /\ LET f == Top(t) IN
       IF f.pc = "body" THEN
            \* self.cleanup_expired_sessions(), with the mutex held
            /\ Push(t, f, Frame("cleanup_expired_sessions", 0, 0))
            /\ UNCHANGED <<lock, last>>
       ELSE Return(t, IF f.r = Raised THEN Raised ELSE None, SetToSeq(live))
    /\ UNCHANGED <<now, nextId, objs, live, dirs, heap, blob, aeadIn, aeadOut, tsc, tscOut, roc, rocOut, rec, recT, mig, png, pngOut, unl, fs, perm, logd, sdir, kdf, strm, rituals>>

EndAllSessions(t) ==
    /\ Running(t, "end_all_sessions")
    /\ EndEach(t, SetToSeq(live), "none")
    /\ UNCHANGED <<now, nextId, objs, live, dirs, heap, blob, aeadIn, aeadOut, tsc, tscOut, roc, rocOut, rec, recT, mig, png, pngOut, unl, fs, perm, logd, sdir, kdf, strm, rituals>>

(* The clock advances. *)
Tick ==
    /\ now < MaxNow
    /\ now' = now + 1
    /\ UNCHANGED <<nextId, objs, live, dirs, heap, lock, stack, last, blob, aeadIn, aeadOut, tsc, tscOut, roc, rocOut, rec, recT, mig, png, pngOut, unl, fs, perm, logd, sdir, kdf, strm, rituals>>

-----------------------------------------------------------------------------
(* AEAD envelope (crypto_core.py) and the contexts its callers build *)

AeadKeys == {"K1", "K2"}
Plaintexts == {<<>>, <<104, 105>>}
Filenames == {"a.txt"}
PrivacyProfileNames == {"Quick Lock", "Ritual Lock", "Black Vault"}

(* The keys a context can hold, in the order json.dumps(sort_keys=True) *)
(* writes them.                                                         *)
CtxKeys == <<"deniable", "filename", "profile_name", "rune_id">>

CtxValues(k) ==
    CASE k = "deniable" -> {"true"}
      [] k = "filename" -> Filenames
      [] k = "profile_name" -> {"Ritual Lock", "Black Vault"}
      [] k = "rune_id" -> {"ECH-K1", "ECH-K2"}

CtxStrings == UNION {CtxValues(CtxKeys[i]) : i \in 1..Len(CtxKeys)}

(* The contexts given to encrypt_bytes: "Dictionary with profile_name, *)
(* rune_id, etc."                                                      *)
Contexts ==
    UNION {{c \in [D -> CtxStrings] : \A k \in D : c[k] \in CtxValues(k)} :
              D \in {E \in SUBSET {CtxKeys[i] : i \in 1..Len(CtxKeys)} :
                         {"profile_name", "rune_id"} \subseteq E}}

(* json.dumps(context, sort_keys=True).encode("utf-8"): the members of the *)
(* dict, as (key, value) pairs in key order.                               *)
JsonDumps(context) ==
    LET ks == SelectSeq(CtxKeys, LAMBDA k : k \in DOMAIN context)
    IN [i \in 1..Len(ks) |-> <<ks[i], context[ks[i]]>>]

CtxGet(context, k, default) == IF k \in DOMAIN context THEN context[k] ELSE default

(* rune_id_from_key: "ECH-" and eight hex digits of SHA-256(key) *)
RuneIdFromKey(key) == "ECH-" \o key

(* PrivacyProfile.deniable of the registered profiles *)
ProfileDeniable(profile_name) == profile_name = "Black Vault"

(* cipher.encrypt(nonce, data, aad) and cipher.decrypt(nonce, ct, aad) of an *)
(* AEAD: decryption returns the data exactly when algorithm, key, nonce and  *)
(* associated data are those of the encryption.                              *)
Seal(alg, key, nonce, data, aad) ==
    [alg |-> alg, key |-> key, nonce |-> nonce, data |-> data, aad |-> aad]

Open(alg, key, nonce, ciphertext, aad) ==
    IF /\ ciphertext.alg = alg
       /\ ciphertext.key = key
       /\ ciphertext.nonce = nonce
       /\ ciphertext.aad = aad
    THEN [ok |-> TRUE, data |-> ciphertext.data]
    ELSE [ok |-> FALSE, data |-> <<>>]

XChaChaNonceLen == 24
AesGcmNonceLen == 12

NoBlob ==
    [set |-> FALSE, version |-> "2.0", nonce |-> [len |-> 0, id |-> "n"],
     ciphertext |-> Seal("", "", [len |-> 0, id |-> "n"], <<>>, <<>>),
     profile_name |-> "", rune_id |-> "", decoy_header |-> FALSE]

NoAeadIn == [data |-> <<>>, key |-> "", context |-> <<>>, via |-> ""]
NoAeadOut == [set |-> FALSE, key |-> "", ok |-> FALSE, data |-> <<>>]

(* encrypt_bytes.  Whether ChaCha20Poly1305 takes the 24-byte nonce or raises *)
(* (and AES-GCM is used) depends on the library: chacha_ok is either.         *)
EncryptedBlobOf(data, key, context, chacha_ok) ==
    LET alg == IF chacha_ok THEN "chacha20poly1305" ELSE "aesgcm"
        nonce == [len |-> IF chacha_ok THEN XChaChaNonceLen ELSE AesGcmNonceLen,
                  id |-> "n"]
        aad == JsonDumps(context)
    IN [set |-> TRUE, version |-> "2.0", nonce |-> nonce,
        ciphertext |-> Seal(alg, key, nonce, data, aad),
        profile_name |-> CtxGet(context, "profile_name", ""),
        rune_id |-> CtxGet(context, "rune_id", ""),
        decoy_header |-> (CtxGet(context, "deniable", "false") = "true")]

(* decrypt_bytes *)
DecryptedOf(b, key) ==
    LET context == [profile_name |-> b.profile_name, rune_id |-> b.rune_id]
        aad == JsonDumps(context)
    IN IF b.nonce.len = XChaChaNonceLen
       THEN Open("chacha20poly1305", key, b.nonce, b.ciphertext, aad)
       ELSE IF b.nonce.len = AesGcmNonceLen
       THEN Open("aesgcm", key, b.nonce, b.ciphertext, aad)
       ELSE [ok |-> FALSE, data |-> <<>>]

(* The context of encrypt_with_echotome (pipeline.py) and of the vault     *)
(* writer (vaults.py).                                                     *)
CallerContext(profile_name, rune_id, filename) ==
    LET base == [profile_name |-> profile_name, rune_id |-> rune_id,
                 filename |-> filename]
    IN IF ProfileDeniable(profile_name)
       THEN [k \in DOMAIN base \cup {"deniable"} |->
                IF k = "deniable" THEN "true" ELSE base[k]]
       ELSE base

EncryptBytes ==
    /\ \E data \in Plaintexts, key \in AeadKeys, context \in Contexts, chacha_ok \in BOOLEAN :
        /\ blob' = EncryptedBlobOf(data, key, context, chacha_ok)
        /\ aeadIn' = [data |-> data, key |-> key, context |-> JsonDumps(context),
                      via |-> "encrypt_bytes"]
    /\ aeadOut' = NoAeadOut
    /\ UNCHANGED <<now, nextId, objs, live, dirs, heap, lock, stack, last, tsc, tscOut, roc, rocOut, rec, recT, mig, png, pngOut, unl, fs, perm, logd, sdir, kdf, strm, rituals>>

EncryptWithEchotome ==
    /\ \E data \in Plaintexts, key \in AeadKeys, profile_name \in PrivacyProfileNames,
          filename \in Filenames, chacha_ok \in BOOLEAN :
        LET context == CallerContext(profile_name, RuneIdFromKey(key), filename)
        IN /\ blob' = EncryptedBlobOf(data, key, context, chacha_ok)
           /\ aeadIn' = [data |-> data, key |-> key, context |-> JsonDumps(context),
                         via |-> "encrypt_with_echotome"]
    /\ aeadOut' = NoAeadOut
    /\ UNCHANGED <<now, nextId, objs, live, dirs, heap, lock, stack, last, tsc, tscOut, roc, rocOut, rec, recT, mig, png, pngOut, unl, fs, perm, logd, sdir, kdf, strm, rituals>>

DecryptBytes ==
    /\ blob.set
    /\ \E key \in AeadKeys :
        LET r == DecryptedOf(blob, key)
        IN aeadOut' = [set |-> TRUE, key |-> key, ok |-> r.ok, data |-> r.data]
    /\ UNCHANGED <<now, nextId, objs, live, dirs, heap, lock, stack, last, blob, aeadIn, tsc, tscOut, roc, rocOut, rec, recT, mig, png, pngOut, unl, fs, perm, logd, sdir, kdf, strm, rituals>>

AeadInit ==
    /\ blob = NoBlob
    /\ aeadIn = NoAeadIn
    /\ aeadOut = NoAeadOut

NextAead == EncryptBytes \/ EncryptWithEchotome \/ DecryptBytes

-----------------------------------------------------------------------------
(* Temporal salt chain (temporal_salt_chain.py).  Time stamps are counted in *)
(* units of 0.1 ms: expected_interval = 0.032 s is 320 units.  SHA-256 is    *)
(* taken as collision-free: a chain state is identified with what was hashed *)
(* into it, the device key, the track length and the (frame, index) pairs;   *)
(* the jitter is determined by the state and the index.                      *)

MaxFrames == 3
MaxTimedFrames == 11
MaxAbnormal == 3

ExpectedInterval == 320
MinPlaybackSpeedTenths == 8
MaxPlaybackSpeedTenths == 12
TooFastPercent == 10
TooSlowPercent == 20

DevicePubs == {"devA", "devB"}
TrackLengths == {16000}
FrameInputs == {1, 2}
DtInputs == {160, 320, 1200}
FirstTimestamps == {5000}

InitializeTscState(device_pub, track_length) ==
    [device_pub |-> device_pub, track_length |-> track_length, chain |-> <<>>]

(* frame.astype("float32"), for a sample that holds a whole number below   *)
(* 2^25: exact up to 2^24; above it float32 has the even numbers only, and *)
(* an odd one is rounded to the neighbour with an even significand.        *)
Float32Exact == 16777216

AsFloat32(x) ==
    IF x <= Float32Exact \/ x % 2 = 0 THEN x
    ELSE IF (x + 1) % 4 = 0 THEN x + 1 ELSE x - 1

(* _chain_frame without the state in the digest *)
ChainFrameUnchained(state, frame, frame_idx) ==
    [state EXCEPT !.chain = <<<<AsFloat32(frame), frame_idx>>>>]

(* _chain_frame: SHA256(state || frame_hash || jitter || frame_idx), where *)
(* the frame hash is taken over the float32 bytes of the frame and the     *)
(* jitter is itself a digest of (state, frame_idx).                        *)
ChainFrame(state, frame, frame_idx) ==
    [state EXCEPT !.chain = Append(@, <<AsFloat32(frame), frame_idx>>)]

(* np.diff(timing_data) *)
Diff(timing_data) ==
    [i \in 1..(Len(timing_data) - 1) |-> timing_data[i + 1] - timing_data[i]]

RECURSIVE CountBelow(_, _)
CountBelow(intervals, limit) ==
    IF intervals = <<>> THEN 0
    ELSE (IF Head(intervals) < limit THEN 1 ELSE 0) + CountBelow(Tail(intervals), limit)

RECURSIVE CountAbove(_, _)
CountAbove(intervals, limit) ==
    IF intervals = <<>> THEN 0
    ELSE (IF Head(intervals) > limit THEN 1 ELSE 0) + CountAbove(Tail(intervals), limit)

MinInterval == (ExpectedInterval * MinPlaybackSpeedTenths) \div 10
MaxInterval == (ExpectedInterval * MaxPlaybackSpeedTenths) \div 10

(* _validate_timing without its too_slow check *)
ValidateTimingFastOnly(timing_data, expected_frames) ==
    IF Len(timing_data) # expected_frames THEN TRUE
    ELSE IF Len(timing_data) < 2 THEN FALSE
    ELSE LET intervals == Diff(timing_data)
         IN 100 * CountBelow(intervals, MinInterval) > TooFastPercent * Len(intervals)

(* _validate_timing: TRUE when it raises.  "too_fast > 0.1" for the fraction *)
(* count / len is "100 * count > 10 * len".                                  *)
ValidateTimingRaises(timing_data, expected_frames) ==
    IF Len(timing_data) # expected_frames THEN TRUE
    ELSE IF Len(timing_data) < 2 THEN FALSE
    ELSE LET intervals == Diff(timing_data)
             n == Len(intervals)
         IN \/ 100 * CountBelow(intervals, MinInterval) > TooFastPercent * n
            \/ 100 * CountAbove(intervals, MaxInterval * 3) > TooSlowPercent * n

NoStreamer ==
    [made |-> FALSE, state |-> InitializeTscState("", 0), frame_idx |-> 0,
     timing_data |-> <<>>, started |-> FALSE, start_time |-> 0, finalized |-> FALSE]

NoTscCall ==
    [op |-> "", validate |-> FALSE, raised |-> FALSE, again |-> FALSE,
     value |-> InitializeTscState("", 0)]

(* TemporalHashStreamer.__init__ *)
NewStreamer(device_pub, track_length) ==
    /\ ~tsc.made
    /\ tsc' = [made |-> TRUE, state |-> InitializeTscState(device_pub, track_length),
               frame_idx |-> 0, timing_data |-> <<>>, started |-> FALSE,
               start_time |-> 0, finalized |-> FALSE]
    /\ tscOut' = [NoTscCall EXCEPT !.op = "init"]
    /\ UNCHANGED <<now, nextId, objs, live, dirs, heap, lock, stack, last, blob, aeadIn, aeadOut, roc, rocOut, rec, recT, mig, png, pngOut, unl, fs, perm, logd, sdir, kdf, strm, rituals>>

(* add_frame without its check of the finalized flag *)
AddFrameUnguarded(s, frame, timestamp) ==
    LET start_time == IF s.started THEN s.start_time ELSE timestamp
    IN [s EXCEPT !.started = TRUE,
                 !.start_time = start_time,
                 !.timing_data = Append(@, timestamp - start_time),
                 !.state = ChainFrame(@, frame, s.frame_idx),
                 !.frame_idx = @ + 1]

(* add_frame that does not advance frame_idx *)
AddFrameToSameIdx(s, frame, timestamp) ==
    IF s.finalized THEN s
    ELSE LET start_time == IF s.started THEN s.start_time ELSE timestamp
         IN [s EXCEPT !.started = TRUE,
                      !.start_time = start_time,
                      !.timing_data = Append(@, timestamp - start_time),
                      !.state = ChainFrame(@, frame, s.frame_idx)]

(* add_frame: the streamer after the call; it raises, and changes nothing, *)
(* when the streamer is finalized                                          *)
AddFrameTo(s, frame, timestamp) ==
    IF s.finalized THEN s
    ELSE LET start_time == IF s.started THEN s.start_time ELSE timestamp
         IN [s EXCEPT !.started = TRUE,
                      !.start_time = start_time,
                      !.timing_data = Append(@, timestamp - start_time),
                      !.state = ChainFrame(@, frame, s.frame_idx),
                      !.frame_idx = @ + 1]

AddFrame(frame, timestamp) ==
    /\ tsc.made
    /\ tsc' = AddFrameTo(tsc, frame, timestamp)
    /\ tscOut' = [NoTscCall EXCEPT !.op = "add_frame", !.raised = tsc.finalized]
    /\ UNCHANGED <<now, nextId, objs, live, dirs, heap, lock, stack, last, blob, aeadIn, aeadOut, roc, rocOut, rec, recT, mig, png, pngOut, unl, fs, perm, logd, sdir, kdf, strm, rituals>>

(* finalize: TRUE when the call raises *)
FinalizeRaises(s, validate_timing) ==
    /\ ~s.finalized
    /\ validate_timing
    /\ Len(s.timing_data) > 1
    /\ ValidateTimingRaises(s.timing_data, s.frame_idx)

Finalize(validate_timing) ==
    /\ tsc.made
    /\ LET raises == FinalizeRaises(tsc, validate_timing)
       IN /\ tsc' = IF raises THEN tsc ELSE [tsc EXCEPT !.finalized = TRUE]
          /\ tscOut' = [op |-> "finalize", validate |-> validate_timing,
                        raised |-> raises, again |-> tsc.finalized,
                        value |-> IF raises THEN NoTscCall.value ELSE tsc.state]
    /\ UNCHANGED <<now, nextId, objs, live, dirs, heap, lock, stack, last, blob, aeadIn, aeadOut, roc, rocOut, rec, recT, mig, png, pngOut, unl, fs, perm, logd, sdir, kdf, strm, rituals>>

(* The time stamp of the next frame: dt after the one before. *)
NextTimestamp(first, dt) ==
    IF tsc.started THEN tsc.start_time + tsc.timing_data[Len(tsc.timing_data)] + dt
    ELSE first

Abnormal(dt) == dt # ExpectedInterval

AbnormalCount ==
    Cardinality({i \in 1..(Len(tsc.timing_data) - 1) :
                    Abnormal(tsc.timing_data[i + 1] - tsc.timing_data[i])})

TscInit ==
    /\ tsc = NoStreamer
    /\ tscOut = NoTscCall

(* A streamer fed frames of any content, at any pace. *)
NextTsc ==
    \/ \E device_pub \in DevicePubs, track_length \in TrackLengths :
          NewStreamer(device_pub, track_length)
    \/ \E frame \in FrameInputs, first \in FirstTimestamps, dt \in DtInputs :
          /\ tsc.finalized \/ tsc.frame_idx < MaxFrames
          /\ AddFrame(frame, NextTimestamp(first, dt))
    \/ \E validate_timing \in BOOLEAN : Finalize(validate_timing)

(* A long playback: one frame content, at most MaxAbnormal intervals that *)
(* are not the expected one.                                              *)
NextTiming ==
    \/ \E device_pub \in {"devA"}, track_length \in TrackLengths :
          NewStreamer(device_pub, track_length)
    \/ \E frame \in {1}, first \in FirstTimestamps, dt \in DtInputs :
          /\ tsc.finalized \/ tsc.frame_idx < MaxTimedFrames
          /\ tsc.started /\ Abnormal(dt) => AbnormalCount < MaxAbnormal
          /\ AddFrame(frame, NextTimestamp(first, dt))
    \/ \E validate_timing \in BOOLEAN : Finalize(validate_timing)

-----------------------------------------------------------------------------
(* Ritual ownership certificates (ritual_certificates.py, identity_keys.py). *)
(* Ed25519 is taken as unforgeable: a signature is identified with the key   *)
(* that made it and the bytes it was made over.  A serialization is the      *)
(* sequence of (key, JSON value) pairs in sorted key order.                  *)

Keypairs == {[priv |-> "privA", pub |-> "pubA"], [priv |-> "privB", pub |-> "pubB"]}
PubKeys == {kp.pub : kp \in Keypairs}
AudioHashes == {"aa", "ab"}
RuneIds == {"ECH-1"}
NoneStr == "<None>"

(* Ed25519PrivateKey.from_private_bytes(priv).public_key() *)
PublicKeyOf(priv) == (CHOOSE kp \in Keypairs : kp.priv = priv).pub

B64Encode(bytes) == "b64:" \o bytes
B64Decodable(s) == \E x \in PubKeys : B64Encode(x) = s
B64Decode(s) == CHOOSE x \in PubKeys : B64Encode(x) = s

(* json.dumps of a str or of None *)
JsonStr(s) == IF s = NoneStr THEN "null" ELSE "\"" \o s \o "\""

(* the same serialization with the legacy audio_hash left out *)
PayloadToBytesNoLegacyHash(payload) ==
    << <<"owner_pub", <<JsonStr(payload.owner_pub)>> >>,
       <<"rune_id", <<JsonStr(payload.rune_id)>> >>,
       <<"tracks", [i \in 1..Len(payload.tracks) |-> JsonStr(payload.tracks[i])]>>,
       <<"version", <<JsonStr(payload.version)>> >> >>

(* RitualCertificatePayload.to_bytes: json.dumps(to_dict(), sort_keys=True) *)
PayloadToBytes(payload) ==
    << <<"audio_hash", <<JsonStr(payload.audio_hash)>> >>,
       <<"owner_pub", <<JsonStr(payload.owner_pub)>> >>,
       <<"rune_id", <<JsonStr(payload.rune_id)>> >>,
       <<"tracks", [i \in 1..Len(payload.tracks) |-> JsonStr(payload.tracks[i])]>>,
       <<"version", <<JsonStr(payload.version)>> >> >>

NoPayload == [version |-> "", owner_pub |-> "", rune_id |-> "", audio_hash |-> NoneStr, tracks |-> <<>>]

(* sign_data; the signature travels base64-encoded (b64 = TRUE) *)
SignData(data, keypair) ==
    [b64 |-> TRUE, signer |-> PublicKeyOf(keypair.priv), data |-> data]

GarbageSignature == [b64 |-> TRUE, signer |-> "", data |-> <<>>]
NotBase64 == [b64 |-> FALSE, signer |-> "", data |-> <<>>]

(* verify_signature *)
VerifySignature(data, signature, public_key_bytes) ==
    /\ signature.signer = public_key_bytes
    /\ signature.data = data

NoCert == [made |-> FALSE, payload |-> NoPayload, signature |-> GarbageSignature,
           signedBy |-> "", signedPayload |-> NoPayload, touched |-> {}]
NoRocCall == [set |-> FALSE, expected |-> NoneStr, listed |-> FALSE, allowed |-> {},
              raised |-> FALSE, result |-> FALSE]

Signed(payload, keypair) ==
    [made |-> TRUE, payload |-> payload,
     signature |-> SignData(PayloadToBytes(payload), keypair),
     signedBy |-> keypair.pub, signedPayload |-> payload, touched |-> {}]

CreateRitualCertificate(rune_id, audio_hash, keypair) ==
    /\ roc' = Signed([version |-> "3.1", owner_pub |-> B64Encode(keypair.pub),
                      rune_id |-> rune_id, audio_hash |-> audio_hash,
                      tracks |-> <<audio_hash>>], keypair)
    /\ rocOut' = NoRocCall
    /\ UNCHANGED <<sessVars, aeadVars, tsc, tscOut, rec, recT, mig, png, pngOut, unl, fs, perm, logd, sdir, kdf, strm, rituals>>

CreateMultiTrackRitualCertificate(rune_id, tracks, keypair) ==
    /\ tracks # <<>>
    /\ roc' = Signed([version |-> "3.1", owner_pub |-> B64Encode(keypair.pub),
                      rune_id |-> rune_id, audio_hash |-> NoneStr,
                      tracks |-> tracks], keypair)
    /\ rocOut' = NoRocCall
    /\ UNCHANGED <<sessVars, aeadVars, tsc, tscOut, rec, recT, mig, png, pngOut, unl, fs, perm, logd, sdir, kdf, strm, rituals>>

(* The holder of a certificate edits one of its fields. *)
SetField(field, value) ==
    /\ roc.made
    /\ roc.payload[field] # value
    /\ roc' = [roc EXCEPT !.payload[field] = value, !.touched = @ \cup {field}]
    /\ rocOut' = NoRocCall
    /\ UNCHANGED <<sessVars, aeadVars, tsc, tscOut, rec, recT, mig, png, pngOut, unl, fs, perm, logd, sdir, kdf, strm, rituals>>

SetSignature(signature) ==
    /\ roc.made
    /\ roc.signature # signature
    /\ roc' = [roc EXCEPT !.signature = signature, !.signedBy = "",
                          !.touched = @ \cup {"signature"}]
    /\ rocOut' = NoRocCall
    /\ UNCHANGED <<sessVars, aeadVars, tsc, tscOut, rec, recT, mig, png, pngOut, unl, fs, perm, logd, sdir, kdf, strm, rituals>>

(* The body of verify_ritual_certificate's try block: "raise", or the value *)
(* it returns.                                                              *)
VerifyBody(cert, expected_audio_hash, listed, allowed_pub_keys) ==
    IF ~cert.signature.b64 \/ ~B64Decodable(cert.payload.owner_pub) THEN "raise"
    ELSE LET owner_pub_bytes == B64Decode(cert.payload.owner_pub)
             payload_bytes == PayloadToBytes(cert.payload)
         IN IF ~VerifySignature(payload_bytes, cert.signature, owner_pub_bytes) THEN "False"
            ELSE IF expected_audio_hash # NoneStr /\ cert.payload.audio_hash # expected_audio_hash
                 THEN "False"
            ELSE IF listed /\ owner_pub_bytes \notin allowed_pub_keys THEN "False"
            ELSE "True"

VerifyRitualCertificate(expected_audio_hash, listed, allowed_pub_keys) ==
    /\ roc.made
    /\ LET body == VerifyBody(roc, expected_audio_hash, listed, allowed_pub_keys)
       IN rocOut' = [set |-> TRUE, expected |-> expected_audio_hash, listed |-> listed,
                     allowed |-> allowed_pub_keys, raised |-> FALSE,
                     result |-> (body = "True")]
    /\ UNCHANGED <<sessVars, aeadVars, tsc, tscOut, roc, rec, recT, mig, png, pngOut, unl, fs, perm, logd, sdir, kdf, strm, rituals>>

RocInit ==
    /\ roc = NoCert
    /\ rocOut = NoRocCall

NextRoc ==
    \/ \E rune_id \in RuneIds, audio_hash \in AudioHashes, keypair \in Keypairs :
          CreateRitualCertificate(rune_id, audio_hash, keypair)
    \/ \E rune_id \in RuneIds, keypair \in Keypairs, a \in AudioHashes, b \in AudioHashes :
          CreateMultiTrackRitualCertificate(rune_id, <<a, b>>, keypair)
    \/ \E audio_hash \in AudioHashes \cup {NoneStr} : SetField("audio_hash", audio_hash)
    \/ \E owner_pub \in {B64Encode(x) : x \in PubKeys} \cup {"!"} : SetField("owner_pub", owner_pub)
    \/ \E signature \in {GarbageSignature, NotBase64} : SetSignature(signature)
    \/ \E expected_audio_hash \in AudioHashes \cup {NoneStr}, listed \in BOOLEAN,
          allowed_pub_keys \in SUBSET PubKeys :
          /\ ~listed => allowed_pub_keys = {}
          /\ VerifyRitualCertificate(expected_audio_hash, listed, allowed_pub_keys)

-----------------------------------------------------------------------------
(* Recovery codes (recovery.py).  A code is the sequence of its characters. *)
(* SHA-256 is taken as collision-free.  validate_and_mark_used runs without *)
(* any lock: "config.use_count += 1" is a read followed by a write, and     *)
(* other callers may run between the two.                                   *)

MaxUseCount == 2

RecCallers == {"r1", "r2"}
GeneratedCodes == << <<"A", "1", "-", "B", "2">>, <<"C", "3", "-", "D", "4">> >>
CodeInputs == { <<"A", "1", "-", "B", "2">>, <<"a", "1", " ", "b", "2">>,
                <<"A", "1", "-", "B", "3">>, <<>> }
TimestampInputs == {100, 200}
NoTimestamp == -1

(* str.replace(ch, "") *)
Replace(s, ch) == SelectSeq(s, LAMBDA c : c # ch)

UpperChar(c) ==
    CASE c = "a" -> "A" [] c = "b" -> "B" [] c = "c" -> "C" [] c = "d" -> "D" [] OTHER -> c

(* str.upper() *)
Upper(s) == [i \in 1..Len(s) |-> UpperChar(s[i])]

Sha256Hex(s) == <<"sha256", s>>

HashRecoveryCodes(codes) ==
    [i \in 1..Len(codes) |-> Sha256Hex(Upper(Replace(codes[i], "-")))]

(* verify_recovery_code comparing the code as typed *)
VerifyRecoveryCodeRaw(code, hashes) ==
    \E i \in 1..Len(hashes) : hashes[i] = Sha256Hex(code)

VerifyRecoveryCode(code, hashes) ==
    LET normalized == Upper(Replace(Replace(code, "-"), " "))
        code_hash == Sha256Hex(normalized)
    IN \E i \in 1..Len(hashes) : hashes[i] = code_hash

NoConfig ==
    [made |-> FALSE, enabled |-> FALSE, codes_hashes |-> <<>>, use_count |-> 0,
     last_used_timestamp |-> NoTimestamp, granted |-> 0]

IdleCaller ==
    [pc |-> "idle", code |-> <<>>, ts |-> NoTimestamp, read |-> 0, done |-> FALSE,
     result |-> FALSE, enabled0 |-> FALSE, count0 |-> 0, stamp0 |-> NoTimestamp]

CreateRecoveryConfig(enabled) ==
    /\ ~rec.made
    /\ rec' = [made |-> TRUE, enabled |-> enabled,
               codes_hashes |-> IF enabled THEN HashRecoveryCodes(GeneratedCodes) ELSE <<>>,
               use_count |-> 0, last_used_timestamp |-> NoTimestamp, granted |-> 0]
    /\ UNCHANGED <<sessVars, aeadVars, tsc, tscOut, roc, rocOut, recT, mig, png, pngOut, unl, fs, perm, logd, sdir, kdf, strm, rituals>>

(* A caller enters validate_and_mark_used(config, code, current_timestamp);  *)
(* done marks the outcome of the call that returned last, until the next    *)
(* call enters.                                                             *)
RecCall(t, code, current_timestamp) ==
    /\ rec.made
    /\ recT[t].pc = "idle"
    /\ rec.use_count < MaxUseCount
    /\ recT' = [u \in RecCallers |->
                   IF u = t
                   THEN [pc |-> "check", code |-> code, ts |-> current_timestamp,
                         read |-> 0, done |-> FALSE, result |-> FALSE,
                         enabled0 |-> rec.enabled, count0 |-> rec.use_count,
                         stamp0 |-> rec.last_used_timestamp]
                   ELSE [recT[u] EXCEPT !.done = FALSE]]
    /\ UNCHANGED <<sessVars, aeadVars, tsc, tscOut, roc, rocOut, rec, mig, png, pngOut, unl, fs, perm, logd, sdir, kdf, strm, rituals>>

(* lines 183-187: the two early returns *)
RecCheck(t) ==
    /\ recT[t].pc = "check"
    /\ IF rec.enabled /\ VerifyRecoveryCode(recT[t].code, rec.codes_hashes)
       THEN recT' = [recT EXCEPT ![t].pc = "load"]
       ELSE recT' = [recT EXCEPT ![t].pc = "idle", ![t].done = TRUE, ![t].result = FALSE]
    /\ UNCHANGED <<sessVars, aeadVars, tsc, tscOut, roc, rocOut, rec, mig, png, pngOut, unl, fs, perm, logd, sdir, kdf, strm, rituals>>

(* line 190, the read of config.use_count *)
RecLoad(t) ==
    /\ recT[t].pc = "load"
    /\ recT' = [recT EXCEPT ![t].pc = "store", ![t].read = rec.use_count]
    /\ UNCHANGED <<sessVars, aeadVars, tsc, tscOut, roc, rocOut, rec, mig, png, pngOut, unl, fs, perm, logd, sdir, kdf, strm, rituals>>

(* line 190, the write of config.use_count *)
RecStore(t) ==
    /\ recT[t].pc = "store"
    /\ rec' = [rec EXCEPT !.use_count = recT[t].read + 1]
    /\ recT' = [recT EXCEPT ![t].pc = "stamp"]
    /\ UNCHANGED <<sessVars, aeadVars, tsc, tscOut, roc, rocOut, mig, png, pngOut, unl, fs, perm, logd, sdir, kdf, strm, rituals>>

(* lines 191-193 *)
RecStamp(t) ==
    /\ recT[t].pc = "stamp"
    /\ rec' = [rec EXCEPT !.last_used_timestamp = recT[t].ts, !.granted = @ + 1]
    /\ recT' = [recT EXCEPT ![t].pc = "idle", ![t].done = TRUE, ![t].result = TRUE]
    /\ UNCHANGED <<sessVars, aeadVars, tsc, tscOut, roc, rocOut, mig, png, pngOut, unl, fs, perm, logd, sdir, kdf, strm, rituals>>

DisableRecovery ==
    /\ rec.made
    /\ rec.enabled
    /\ rec' = [rec EXCEPT !.enabled = FALSE, !.codes_hashes = <<>>]
    /\ UNCHANGED <<sessVars, aeadVars, tsc, tscOut, roc, rocOut, recT, mig, png, pngOut, unl, fs, perm, logd, sdir, kdf, strm, rituals>>

RecInit ==
    /\ rec = NoConfig
    /\ recT = [t \in RecCallers |-> IdleCaller]

RecStep(t) ==
    \/ \E code \in CodeInputs, current_timestamp \in TimestampInputs :
          RecCall(t, code, current_timestamp)
    \/ RecCheck(t)
    \/ RecLoad(t)
    \/ RecStore(t)
    \/ RecStamp(t)

(* One caller at a time. *)
NextRecovery ==
    \/ \E enabled \in BOOLEAN : CreateRecoveryConfig(enabled)
    \/ (\A u \in RecCallers : recT[u].pc = "idle") /\ DisableRecovery
    \/ \E t \in RecCallers : (\A u \in RecCallers \ {t} : recT[u].pc = "idle") /\ RecStep(t)

(* Callers on several threads. *)
NextRecoveryThreads ==
    \/ \E enabled \in BOOLEAN : CreateRecoveryConfig(enabled)
    \/ DisableRecovery
    \/ \E t \in RecCallers : RecStep(t)

-----------------------------------------------------------------------------
(* Vault migration (migration.py).  A dictionary is a function from its     *)
(* keys; the values at "version_info" and "roc" are references into the     *)
(* heap of nested dictionaries, because dict.copy() is shallow: the copy    *)
(* and the original share them.  Reference 0 is a value that is not a dict. *)

MaxMigrations == 2

Versions == {"3.0.0", "3.1.0", "4.0.0"}
KdfVersion == "argon2id-v1"
TscVersion == "tsc-v1"
RitualModeVersion == "ritual-v1"
NotADict == 0

(* parse_version: (major, minor, micro) *)
ParseVersion(version_str) ==
    CASE version_str = "3.0.0" -> <<3, 0, 0>>
      [] version_str = "3.1.0" -> <<3, 1, 0>>
      [] version_str = "4.0.0" -> <<4, 0, 0>>

IsCompatible(artifact_version, current_version) ==
    ParseVersion(artifact_version)[1] = ParseVersion(current_version)[1]

NeedsMigration(artifact_version, current_version) ==
    /\ IsCompatible(artifact_version, current_version)
    /\ ParseVersion(artifact_version)[2] < ParseVersion(current_version)[2]

DictGet(d, key, default) == IF key \in DOMAIN d THEN d[key] ELSE default

DisabledRecovery ==
    [enabled |-> FALSE, codes_hashes |-> <<>>, use_count |-> 0, last_used_timestamp |-> NoTimestamp]

NewVersionInfo ==
    [echotome_version |-> "3.1.0", kdf_version |-> KdfVersion,
     tsc_version |-> TscVersion, ritual_mode_version |-> RitualModeVersion]

(* _migrate_v30_to_v31 adding the single track whether or not the record *)
(* has tracks already                                                    *)
MigrateV30ToV31Appending(d, h) ==
    LET d1 == IF "recovery" \in DOMAIN d THEN d ELSE d @@ ("recovery" :> DisabledRecovery)
        d2 == IF "unrecoverable" \in DOMAIN d1 THEN d1
              ELSE d1 @@ ("unrecoverable" :> (DictGet(d1, "profile", "Quick Lock") = "Black Vault"))
        fresh == "version_info" \notin DOMAIN d2
        h1 == IF fresh THEN Append(h, NewVersionInfo) ELSE h
        d3 == IF fresh THEN d2 @@ ("version_info" :> Len(h1)) ELSE d2
        convert == "roc" \in DOMAIN d3 /\ d3["roc"] # NotADict
        roc_dict == h1[d3["roc"]]
        single_track == [audio_hash |-> DictGet(roc_dict, "audio_hash", ""),
                         active_start |-> 0, active_end |-> 0, riv |-> ""]
        h2 == IF convert
              THEN [h1 EXCEPT ![d3["roc"]] =
                       ("tracks" :> (DictGet(roc_dict, "tracks", <<>>) \o <<single_track>>)) @@ @]
              ELSE h1
    IN [doc |-> d3, heap |-> h2]

(* _migrate_v30_to_v31 on the shallow copy d, with heap h: the migrated *)
(* dictionary and the heap after the call                               *)
MigrateV30ToV31(d, h) ==
    LET d1 == IF "recovery" \in DOMAIN d THEN d ELSE d @@ ("recovery" :> DisabledRecovery)
        d2 == IF "unrecoverable" \in DOMAIN d1 THEN d1
              ELSE d1 @@ ("unrecoverable" :> (DictGet(d1, "profile", "Quick Lock") = "Black Vault"))
        fresh == "version_info" \notin DOMAIN d2
        h1 == IF fresh THEN Append(h, NewVersionInfo) ELSE h
        d3 == IF fresh THEN d2 @@ ("version_info" :> Len(h1)) ELSE d2
        convert == /\ "roc" \in DOMAIN d3
                   /\ d3["roc"] # NotADict
                   /\ "tracks" \notin DOMAIN h1[d3["roc"]]
        roc_dict == h1[d3["roc"]]
        single_track == [audio_hash |-> DictGet(roc_dict, "audio_hash", ""),
                         active_start |-> 0, active_end |-> 0, riv |-> ""]
        h2 == IF convert
              THEN [h1 EXCEPT ![d3["roc"]] = @ @@ ("tracks" :> <<single_track>>)]
              ELSE h1
    IN [doc |-> d3, heap |-> h2]

(* migrate_vault past its two early exits: the migrated dictionary and the *)
(* heap after the call                                                     *)
MigrateCopy(vault_dict, h, from_version, to_version) ==
    LET from == ParseVersion(from_version)
        to == ParseVersion(to_version)
        m == IF from[1] = 3 /\ from[2] = 0 /\ to[2] >= 1
             THEN MigrateV30ToV31(vault_dict, h)
             ELSE [doc |-> vault_dict, heap |-> h]
        fresh == "version_info" \notin DOMAIN m.doc
        h1 == IF fresh THEN Append(m.heap, <<>>) ELSE m.heap
        d1 == IF fresh THEN m.doc @@ ("version_info" :> Len(h1)) ELSE m.doc
        ref == d1["version_info"]
        h2 == [h1 EXCEPT ![ref] = ("echotome_version" :> to_version) @@ @]
    IN [doc |-> d1, heap |-> h2]

(* The value of a dictionary, nested dictionaries included. *)
Deep(d, h) ==
    [k \in DOMAIN d |->
        IF k \in {"version_info", "roc"}
        THEN (IF d[k] = NotADict THEN [none |-> TRUE] ELSE h[d[k]])
        ELSE d[k]]

NoMigration == [top |-> <<>>, heap |-> <<>>, calls |-> <<>>]

(* A vault dictionary as loaded from storage. *)
MigLoad(profile, recovery, unrecoverable, version_info, roc_kind) ==
    /\ mig.top = <<>>
    /\ LET p == IF profile = "" THEN <<>> ELSE ("profile" :> profile)
           r == IF recovery THEN ("recovery" :> [DisabledRecovery EXCEPT !.enabled = TRUE]) ELSE <<>>
           u == IF unrecoverable = "" THEN <<>> ELSE ("unrecoverable" :> (unrecoverable = "True"))
           hv == IF version_info = "old" THEN << [echotome_version |-> "3.0.0"] >>
                 ELSE IF version_info = "empty" THEN << <<>> >> ELSE <<>>
           v == IF hv = <<>> THEN <<>> ELSE ("version_info" :> 1)
           hr == IF roc_kind = "single" THEN << [audio_hash |-> "aa"] >>
                 ELSE IF roc_kind = "tracks"
                      THEN << [tracks |-> << [audio_hash |-> "aa", active_start |-> 1,
                                              active_end |-> 2, riv |-> "r"] >>] >>
                      ELSE <<>>
           c == IF roc_kind = "" THEN <<>>
                ELSE IF roc_kind = "None" THEN ("roc" :> NotADict)
                ELSE ("roc" :> Len(hv) + 1)
       IN mig' = [top |-> << ("name" :> "v") @@ p @@ r @@ u @@ v @@ c >>,
                  heap |-> hv \o hr, calls |-> <<>>]
    /\ UNCHANGED <<sessVars, aeadVars, tsc, tscOut, roc, rocOut, rec, recT, png, pngOut, unl, fs, perm, logd, sdir, kdf, strm, rituals>>

MigrateVault(src, from_version, to_version) ==
    /\ src \in 1..Len(mig.top)
    /\ Len(mig.calls) < MaxMigrations
    /\ LET vault_dict == mig.top[src]
           before == Deep(vault_dict, mig.heap)
           call == [src |-> src, from |-> from_version, to |-> to_version, before |-> before]
       IN IF ~IsCompatible(from_version, to_version)
          THEN mig' = [mig EXCEPT !.calls = Append(@,
                          call @@ [raised |-> TRUE, res |-> 0, after |-> <<>>, srcAfter |-> before])]
          ELSE IF from_version = to_version
          THEN mig' = [mig EXCEPT !.calls = Append(@,
                          call @@ [raised |-> FALSE, res |-> src, after |-> before, srcAfter |-> before])]
          ELSE LET m == MigrateCopy(vault_dict, mig.heap, from_version, to_version)
               IN mig' = [top |-> Append(mig.top, m.doc), heap |-> m.heap,
                          calls |-> Append(mig.calls,
                              call @@ [raised |-> FALSE, res |-> Len(mig.top) + 1,
                                       after |-> Deep(m.doc, m.heap),
                                       srcAfter |-> Deep(vault_dict, m.heap)])]
    /\ UNCHANGED <<sessVars, aeadVars, tsc, tscOut, roc, rocOut, rec, recT, png, pngOut, unl, fs, perm, logd, sdir, kdf, strm, rituals>>

MigInit == mig = NoMigration

NextMigration ==
    \/ \E profile \in {"", "Quick Lock", "Black Vault"}, recovery \in BOOLEAN,
          unrecoverable \in {"", "True", "False"}, version_info \in {"", "empty", "old"},
          roc_kind \in {"", "None", "single", "tracks"} :
          MigLoad(profile, recovery, unrecoverable, version_info, roc_kind)
    \/ \E src \in 1..(MaxMigrations + 1), from_version \in Versions, to_version \in Versions :
          MigrateVault(src, from_version, to_version)

-----------------------------------------------------------------------------
(* Steganographic payload (stego.py).  An image is the sequence of its      *)
(* channel values in the order both loops visit them (row, column,          *)
(* channel).  With two bits per channel a message byte occupies four        *)
(* consecutive channels, so the sequence is kept as runs of equal groups of *)
(* four channels ("quads") followed by the channels left over; a byte       *)
(* string is kept as runs of equal bytes.                                   *)

BitsPerChannel == 2
MaxPayloadLen == 1000000
StegoMarker == <<69, 67, 72, 79, 84, 79, 77, 69, 95, 86, 51>>

Lit(bytes) == [i \in 1..Len(bytes) |-> [b |-> bytes[i], n |-> 1]]

RECURSIVE BLen(_)
BLen(rs) == IF rs = <<>> THEN 0 ELSE Head(rs).n + BLen(Tail(rs))

(* the same byte string with adjacent equal runs merged *)
RECURSIVE Canon(_)
Canon(rs) ==
    IF Len(rs) < 2 THEN rs
    ELSE IF rs[1].b = rs[2].b
         THEN Canon(<<[b |-> rs[1].b, n |-> rs[1].n + rs[2].n]>> \o Tail(Tail(rs)))
         ELSE <<rs[1]>> \o Canon(Tail(rs))

RECURSIVE Expand(_)
Expand(rs) ==
    IF rs = <<>> THEN <<>>
    ELSE IF Head(rs).n = 1 THEN <<Head(rs).b>> \o Expand(Tail(rs))
         ELSE <<Head(rs).b>> \o Expand(<<[Head(rs) EXCEPT !.n = @ - 1]>> \o Tail(rs))

(* struct.pack(">I", n) and struct.unpack(">I", bytes) *)
PackU32(n) ==
    <<(n \div 16777216) % 256, (n \div 65536) % 256, (n \div 256) % 256, n % 256>>
UnpackU32(bytes) == ((bytes[1] * 256 + bytes[2]) * 256 + bytes[3]) * 256 + bytes[4]

(* _bytes_to_bits of one byte: (byte >> (7 - i)) & 1 *)
BytesToBits(byte) == [i \in 1..8 |-> (byte \div (2 ^ (8 - i))) % 2]

(* _bits_to_bytes of up to eight bits, padded with zeros *)
BitsToBytes(bits) ==
    LET bit(j) == IF j <= Len(bits) THEN bits[j] ELSE 0
        RECURSIVE acc(_)
        acc(j) == IF j = 0 THEN 0 ELSE acc(j - 1) * 2 + bit(j)
    IN acc(8)

(* _embed_bytes on four channels: clear the two low bits, set the new ones *)
EmbedQuad(q, byte) ==
    LET bits == BytesToBits(byte)
    IN [k \in 1..4 |-> (q[k] - (q[k] % 4)) + (bits[2 * k - 1] * 2) + bits[2 * k]]

(* _extract_bytes on channels: the two low bits of each, high bit first *)
ChannelBits(cs) ==
    [j \in 1..(2 * Len(cs)) |->
        IF j % 2 = 1 THEN (cs[(j + 1) \div 2] \div 2) % 2 ELSE cs[j \div 2] % 2]

RECURSIVE EmbedBytes(_, _)
EmbedBytes(quads, message) ==
    IF message = <<>> \/ quads = <<>> THEN quads
    ELSE LET c == Head(quads)
             m == Head(message)
             k == Min(c.n, m.n)
             cs == IF c.n > k THEN <<[c EXCEPT !.n = @ - k]>> \o Tail(quads) ELSE Tail(quads)
             ms == IF m.n > k THEN <<[m EXCEPT !.n = @ - k]>> \o Tail(message) ELSE Tail(message)
         IN <<[q |-> EmbedQuad(c.q, m.b), n |-> k]>> \o EmbedBytes(cs, ms)

RECURSIVE DropQuads(_, _)
DropQuads(quads, byte_offset) ==
    IF byte_offset = 0 \/ quads = <<>> THEN quads
    ELSE IF Head(quads).n > byte_offset
         THEN <<[Head(quads) EXCEPT !.n = @ - byte_offset]>> \o Tail(quads)
         ELSE DropQuads(Tail(quads), byte_offset - Head(quads).n)

RECURSIVE TakeBytes(_, _, _)
TakeBytes(quads, rest, num_bytes) ==
    IF num_bytes = 0 THEN <<>>
    ELSE IF quads = <<>>
         THEN (IF rest = <<>> THEN <<>> ELSE <<[b |-> BitsToBytes(ChannelBits(rest)), n |-> 1]>>)
         ELSE LET k == Min(Head(quads).n, num_bytes)
              IN <<[b |-> BitsToBytes(ChannelBits(Head(quads).q)), n |-> k]>>
                     \o TakeBytes(Tail(quads), rest, num_bytes - k)

(* _extract_bytes *)
ExtractBytes(img, byte_offset, num_bytes) ==
    LET skipped == BLen(img.quads) < byte_offset
    IN Canon(TakeBytes(DropQuads(img.quads, byte_offset),
                       IF skipped THEN <<>> ELSE img.rest, num_bytes))

ImageModes == {"RGB", "RGBA"}
ImageSizes == {<<2, 2>>, <<2, 3>>, <<4, 4>>, <<8, 8>>, <<1200, 1200>>}
FillValues == {128, 7}
RivLengths == {0, 1, 22, 38, 999989, 999990}
(* the payloads {"riv": ch * n}; the empty string is written with ch = 99 *)
StegoPayloads ==
    {[riv |-> [ch |-> IF n = 0 THEN 99 ELSE ch, n |-> n]] : ch \in {99, 100}, n \in RivLengths}

Channels(mode) == IF mode = "RGBA" THEN 4 ELSE 3

(* np.array(image): a raster of one colour *)
ImageOf(mode, size, fill) ==
    LET total == size[1] * size[2] * Channels(mode)
    IN [mode |-> mode, height |-> size[1], width |-> size[2],
        quads |-> IF total \div 4 = 0 THEN <<>>
                  ELSE <<[q |-> <<fill, fill, fill, fill>>, n |-> total \div 4]>>,
        rest |-> [i \in 1..(total % 4) |-> fill]]

(* json.dumps(payload, sort_keys=True).encode("utf-8") for {"riv": ch * n} *)
PayloadJson(payload) ==
    Lit(<<123, 34, 114, 105, 118, 34, 58, 32, 34>>)
        \o (IF payload.riv.n = 0 THEN <<>> ELSE <<[b |-> payload.riv.ch, n |-> payload.riv.n]>>)
        \o Lit(<<34, 125>>)

JsonDecodable(bytes) == \E p \in StegoPayloads : Canon(PayloadJson(p)) = bytes
JsonLoads(bytes) == CHOOSE p \in StegoPayloads : Canon(PayloadJson(p)) = bytes

NoPayloadDict == [riv |-> [ch |-> 0, n |-> 0]]
NoImage == ImageOf("RGB", <<0, 0>>, 0)

(* embed_payload_in_png: whether it raises, and the image it returns *)
EmbedResult(image, payload) ==
    LET payload_bytes == PayloadJson(payload)
        message == Lit(StegoMarker) \o Lit(PackU32(BLen(payload_bytes))) \o payload_bytes
        total_pixels == image.height * image.width
        capacity_bytes == (total_pixels * Channels(image.mode) * BitsPerChannel) \div 8
    IN IF BLen(message) > capacity_bytes
       THEN [raised |-> TRUE, image |-> NoImage]
       ELSE [raised |-> FALSE, image |-> [image EXCEPT !.quads = EmbedBytes(@, message)]]

(* extract_payload_from_png: "None", "raise" or "payload" *)
ExtractResult(image) ==
    LET marker == ExtractBytes(image, 0, Len(StegoMarker))
        len_offset == Len(StegoMarker)
        len_bytes == Expand(ExtractBytes(image, len_offset, 4))
        payload_len == UnpackU32(len_bytes)
        payload_offset == len_offset + 4
        payload_bytes == ExtractBytes(image, payload_offset, payload_len)
    IN IF marker # Canon(Lit(StegoMarker)) THEN [kind |-> "None", payload |-> NoPayloadDict]
       ELSE IF Len(len_bytes) # 4 THEN [kind |-> "raise", payload |-> NoPayloadDict]
       ELSE IF payload_len > MaxPayloadLen THEN [kind |-> "raise", payload |-> NoPayloadDict]
       ELSE IF ~JsonDecodable(payload_bytes) THEN [kind |-> "raise", payload |-> NoPayloadDict]
       ELSE [kind |-> "payload", payload |-> JsonLoads(payload_bytes)]

NoStego == [made |-> FALSE, carrier |-> NoImage, payload |-> NoPayloadDict,
            raised |-> FALSE, image |-> NoImage]
NoExtract == [set |-> FALSE, of |-> "", kind |-> "", payload |-> NoPayloadDict]

EmbedPayloadInPng(image, payload) ==
    /\ ~png.made
    /\ LET r == EmbedResult(image, payload)
       IN png' = [made |-> TRUE, carrier |-> image, payload |-> payload,
                  raised |-> r.raised, image |-> r.image]
    /\ pngOut' = NoExtract
    /\ UNCHANGED <<sessVars, aeadVars, tsc, tscOut, roc, rocOut, rec, recT, mig, unl, fs, perm, logd, sdir, kdf, strm, rituals>>

(* extract_payload_from_png on the image embed returned, or on the carrier *)
ExtractPayloadFromPng(of) ==
    /\ png.made
    /\ of = "image" => ~png.raised
    /\ LET r == ExtractResult(IF of = "image" THEN png.image ELSE png.carrier)
       IN pngOut' = [set |-> TRUE, of |-> of, kind |-> r.kind, payload |-> r.payload]
    /\ UNCHANGED <<sessVars, aeadVars, tsc, tscOut, roc, rocOut, rec, recT, mig, png, unl, fs, perm, logd, sdir, kdf, strm, rituals>>

StegoInit ==
    /\ png = NoStego
    /\ pngOut = NoExtract

NextStego ==
    \/ \E mode \in ImageModes, size \in ImageSizes, fill \in FillValues, payload \in StegoPayloads :
          EmbedPayloadInPng(ImageOf(mode, size, fill), payload)
    \/ \E of \in {"image", "carrier"} : ExtractPayloadFromPng(of)

-----------------------------------------------------------------------------
(* Unlocking a file (pipeline.py: decrypt_with_echotome).  An error is the *)
(* exception type and the text of its message, as the caller receives it.  *)

Passphrases == {"pw1", "pw2"}
AudioInputs == {"song1", "song2"}

(* derive_final_key: a different key for every passphrase and audio *)
DeriveFinalKey(passphrase, audio_features) ==
    CASE passphrase = "pw1" /\ audio_features = "song1" -> "K1"
      [] passphrase = "pw2" /\ audio_features = "song2" -> "K2"
      [] passphrase = "pw1" /\ audio_features = "song2" -> "K3"
      [] passphrase = "pw2" /\ audio_features = "song1" -> "K4"

NonceLenText(n) ==
    CASE n = XChaChaNonceLen -> "24" [] n = AesGcmNonceLen -> "12" [] OTHER -> "8"

(* decrypt_with_echotome: the plaintext, or the exception that leaves it *)
UnlockResult(b, passphrase, audio_features) ==
    LET key == DeriveFinalKey(passphrase, audio_features)
        expected_rune_id == RuneIdFromKey(key)
        r == DecryptedOf(b, key)
    IN IF expected_rune_id # b.rune_id
       THEN [ok |-> FALSE, data |-> <<>>, cause |-> "rune_id", kind |-> "ValueError",
             msg |-> <<"Rune ID mismatch! Expected ", expected_rune_id, ", got ", b.rune_id>>]
       ELSE IF b.nonce.len \notin {XChaChaNonceLen, AesGcmNonceLen}
       THEN [ok |-> FALSE, data |-> <<>>, cause |-> "nonce", kind |-> "ValueError",
             msg |-> <<"Invalid nonce length: ", NonceLenText(b.nonce.len), "", "">>]
       ELSE IF ~r.ok
       THEN [ok |-> FALSE, data |-> <<>>,
             cause |-> IF b.nonce.len = XChaChaNonceLen THEN "tag_chacha" ELSE "tag_aesgcm",
             kind |-> "ValueError", msg |-> <<"Decryption failed: ", "", "", "">>]
       ELSE [ok |-> TRUE, data |-> r.data, cause |-> "", kind |-> "", msg |-> <<>>]

NoAttempt == [set |-> FALSE, right |-> FALSE, ok |-> FALSE, cause |-> "", kind |-> "", msg |-> <<>>]
NoUnlock == [prev |-> NoAttempt, last |-> NoAttempt]

(* The stored blob file is altered: its rune_id, its nonce or its ciphertext. *)
AlterBlob(field) ==
    /\ blob.set
    /\ blob' = CASE field = "rune_id" ->
                      [blob EXCEPT !.rune_id = IF @ = "ECH-K1" THEN "ECH-K2" ELSE "ECH-K1"]
                 [] field = "nonce" -> [blob EXCEPT !.nonce.len = 8]
                 [] field = "ciphertext" -> [blob EXCEPT !.ciphertext.key = "corrupt"]
    /\ blob' # blob
    /\ UNCHANGED <<sessVars, aeadIn, aeadOut, tsc, tscOut, roc, rocOut, rec, recT, mig, png, pngOut, unl, fs, perm, logd, sdir, kdf, strm, rituals>>

DecryptWithEchotome(passphrase, audio_features) ==
    /\ blob.set
    /\ LET r == UnlockResult(blob, passphrase, audio_features)
           a == [set |-> TRUE, right |-> DeriveFinalKey(passphrase, audio_features) = aeadIn.key,
                 ok |-> r.ok, cause |-> r.cause, kind |-> r.kind, msg |-> r.msg]
       IN unl' = IF r.ok THEN unl ELSE [prev |-> unl.last, last |-> a]
    /\ UNCHANGED <<sessVars, aeadVars, tsc, tscOut, roc, rocOut, rec, recT, mig, png, pngOut, fs, perm, logd, sdir, kdf, strm, rituals>>

UnlockInit == unl = NoUnlock

NextUnlock ==
    \/ ~blob.set /\ EncryptWithEchotome
    \/ ~blob.set /\ EncryptBytes
    \/ \E field \in {"rune_id", "nonce", "ciphertext"} : AlterBlob(field)
    \/ \E passphrase \in Passphrases, audio_features \in AudioInputs :
          DecryptWithEchotome(passphrase, audio_features)

-----------------------------------------------------------------------------
(* The profile registry (privacy_profiles.py): session_ttl_seconds of the *)
(* three registered profiles, and the dataclass default otherwise.        *)

QuickSessionTtlSeconds == 3600
RitualSessionTtlSeconds == 1200
BlackSessionTtlSeconds == 300
DefaultSessionTtlSeconds == 900

RegisteredProfiles == {"Quick Lock", "Ritual Lock", "Black Vault"}

SessionTtlSeconds(profile_name) ==
    CASE profile_name = "Quick Lock" -> QuickSessionTtlSeconds
      [] profile_name = "Ritual Lock" -> RitualSessionTtlSeconds
      [] profile_name = "Black Vault" -> BlackSessionTtlSeconds
      [] OTHER -> DefaultSessionTtlSeconds

-----------------------------------------------------------------------------
(* Construction of a SessionManager (sessions.py: __init__ and             *)
(* _cleanup_stale_session_dirs) on the sessions root as a previous run, or *)
(* the user, left it.  Modes are the permission bits as numbers.           *)

Mode700 == 448      \* 0o700
Mode755 == 493      \* 0o755
MkdirMode == 511    \* 0o777, the mode argument Path.mkdir defaults to
Umasks == {18, 23, 63}  \* 0o022, 0o027 and 0o077

EntryNames == {"e1", "e2", "e3"}
(* an entry of the root: absent, a directory, a directory that rmtree fails *)
(* on (its mode denies listing it), or a regular file                       *)
EntryKinds == {"none", "dir", "locked_dir", "file"}

NoRoot == [made |-> FALSE, fresh |-> FALSE, exists |-> FALSE, mode |-> 0,
           entries |-> [e \in EntryNames |-> "none"]]

(* Path.mkdir(parents=True, exist_ok=True): a missing directory is created *)
(* with mode 0o777 & ~umask, an existing one is left as it is               *)
MkdirExistOk(f, umask) ==
    IF f.exists THEN f ELSE [f EXCEPT !.exists = TRUE, !.mode = MkdirMode - umask]

(* _cleanup_stale_session_dirs: rmtree on every entry that is a directory; *)
(* an exception of rmtree is logged and the entry stays                     *)
CleanupStaleSessionDirs(f) ==
    IF ~f.exists THEN f
    ELSE [f EXCEPT !.entries = [e \in EntryNames |->
                                   IF f.entries[e] = "dir" THEN "none" ELSE f.entries[e]]]

(* The root before the process starts. *)
PreviousRun(mode, entries) ==
    /\ fs = NoRoot
    /\ fs' = [fs EXCEPT !.exists = TRUE, !.mode = mode, !.entries = entries]
    /\ UNCHANGED <<sessVars, aeadVars, tsc, tscOut, roc, rocOut, rec, recT, mig, png, pngOut, unl, perm, logd, sdir, kdf, strm, rituals>>

(* SessionManager.__init__ *)
ConstructSessionManager(umask) ==
    /\ ~fs.made
    /\ fs' = [CleanupStaleSessionDirs(MkdirExistOk(fs, umask)) EXCEPT
                  !.made = TRUE, !.fresh = TRUE]
    /\ UNCHANGED <<sessVars, aeadVars, tsc, tscOut, roc, rocOut, rec, recT, mig, png, pngOut, unl, perm, logd, sdir, kdf, strm, rituals>>

(* create_session, lines 187-191: the session directory is made *)
MakeSessionDir(e) ==
    /\ fs.made
    /\ fs.entries[e] = "none"
    /\ fs' = [fs EXCEPT !.entries[e] = "dir", !.fresh = FALSE]
    /\ UNCHANGED <<sessVars, aeadVars, tsc, tscOut, roc, rocOut, rec, recT, mig, png, pngOut, unl, perm, logd, sdir, kdf, strm, rituals>>

(* The process ends without ending its sessions. *)
ProcessExit ==
    /\ fs.made
    /\ fs' = [fs EXCEPT !.made = FALSE, !.fresh = FALSE]
    /\ UNCHANGED <<sessVars, aeadVars, tsc, tscOut, roc, rocOut, rec, recT, mig, png, pngOut, unl, perm, logd, sdir, kdf, strm, rituals>>

ConstructInit == fs = NoRoot

NextConstruct ==
    \/ \E mode \in {Mode700, Mode755}, entries \in [EntryNames -> EntryKinds] :
          PreviousRun(mode, entries)
    \/ \E umask \in Umasks : ConstructSessionManager(umask)
    \/ \E e \in EntryNames : MakeSessionDir(e)
    \/ ProcessExit

-----------------------------------------------------------------------------
(* compute_temporal_hash (temporal_salt_chain.py) on a frame sequence and on *)
(* a permutation of it.  A frame is one sample, held as the array holds it   *)
(* (float64 or an integer type as well as float32).                          *)

FrameSamples == {1, 2, 16777216, 16777217}

FrameSeqs == UNION {[1..n -> FrameSamples] : n \in 0..MaxFrames}

Permuted(F, p) == [i \in 1..Len(F) |-> F[p[i]]]

RECURSIVE ChainFrames(_, _, _)
ChainFrames(state, frames, i) ==
    IF i > Len(frames) THEN state
    ELSE ChainFrames(ChainFrame(state, frames[i], i - 1), frames, i + 1)

(* compute_temporal_hash with timing_data = None *)
ComputeTemporalHash(frames, device_pub, track_length) ==
    IF Len(frames) = 0
    THEN [raised |-> TRUE, hash |-> InitializeTscState("", 0)]
    ELSE [raised |-> FALSE,
          hash |-> ChainFrames(InitializeTscState(device_pub, track_length), frames, 1)]

NoPerm == [set |-> FALSE, F |-> <<>>, G |-> <<>>,
           hF |-> ComputeTemporalHash(<<>>, "", 0), hG |-> ComputeTemporalHash(<<>>, "", 0)]

HashBoth(F, p, device_pub, track_length) ==
    /\ ~perm.set
    /\ perm' = [set |-> TRUE, F |-> F, G |-> Permuted(F, p),
                hF |-> ComputeTemporalHash(F, device_pub, track_length),
                hG |-> ComputeTemporalHash(Permuted(F, p), device_pub, track_length)]
    /\ UNCHANGED <<sessVars, aeadVars, tsc, tscOut, roc, rocOut, rec, recT, mig, png, pngOut, unl, fs, logd, sdir, kdf, strm, rituals>>

PermInit == perm = NoPerm

NextPermute ==
    \E F \in FrameSeqs, device_pub \in DevicePubs, track_length \in TrackLengths :
        \E p \in Permutations(1..Len(F)) : HashBoth(F, p, device_pub, track_length)

-----------------------------------------------------------------------------
(* Log sanitiser (privacy.py).  Field names are sequences of characters.  A  *)
(* value is a string (s, of n characters), a bytes object (of n bytes), a    *)
(* dict (kids: its values by key) or a list (kids: its items).               *)

MaxListLen == 2

SensitivePatterns ==
    { <<"p","a","s","s","p","h","r","a","s","e">>, <<"p","a","s","s","w","o","r","d">>,
      <<"k","e","y">>, <<"s","e","c","r","e","t">>, <<"t","o","k","e","n">>,
      <<"m","a","s","t","e","r","_","k","e","y">>, <<"m","k">>, <<"s","a","l","t">>,
      <<"n","o","n","c","e">>,
      <<"a","u","d","i","o","_","s","a","m","p","l","e","s">>,
      <<"t","r","a","c","k","_","n","a","m","e">>,
      <<"f","i","l","e","_","c","o","n","t","e","n","t">>,
      <<"r","o","c","_","p","a","y","l","o","a","d">> }

LowerChar(c) ==
    CASE c = "P" -> "p" [] c = "K" -> "k" [] c = "E" -> "e" [] c = "Y" -> "y" [] OTHER -> c

(* str.lower() *)
Lower(s) == [i \in 1..Len(s) |-> LowerChar(s[i])]

(* pattern in field_lower *)
Contains(s, pattern) ==
    \E i \in 0..(Len(s) - Len(pattern)) : SubSeq(s, i + 1, i + Len(pattern)) = pattern

IsSensitiveField(field_name) ==
    \E pattern \in SensitivePatterns : Contains(Lower(field_name), pattern)

StrVal(s, n) == [t |-> "str", s |-> s, n |-> n, kids |-> <<>>]
BytesVal(n) == [t |-> "bytes", s |-> "", n |-> n, kids |-> <<>>]
DictVal(f) == [t |-> "dict", s |-> "", n |-> 0, kids |-> f]
ListVal(q) == [t |-> "list", s |-> "", n |-> 0, kids |-> q]

Redacted == StrVal("[REDACTED]", 10)

NumText(n) == CASE n = 1 -> "1" [] n = 2 -> "2" [] n = 3 -> "3" [] OTHER -> "4"

(* len(str(value)) *)
RECURSIVE ReprLen(_)
RECURSIVE ReprLenItems(_, _)
ReprLenItems(v, ks) ==
    IF ks = {} THEN 0
    ELSE LET k == CHOOSE x \in ks : TRUE
             own == IF v.t = "dict" THEN Len(k) + 4 + ReprLen(v.kids[k])
                    ELSE ReprLen(v.kids[k])
         IN own + (IF Cardinality(ks) > 1 THEN 2 ELSE 0) + ReprLenItems(v, ks \ {k})

ReprLen(v) ==
    CASE v.t = "str" -> v.n + 2
      [] v.t = "bytes" -> v.n + 3
      [] OTHER -> 2 + ReprLenItems(v, DOMAIN v.kids)

(* sanitize_log_data: the loop body, for the value of one key *)
RECURSIVE SanitizeLogData(_)
SanitizeValue(key, value) ==
    IF IsSensitiveField(key) THEN Redacted
    ELSE IF value.t = "dict" THEN SanitizeLogData(value)
    ELSE IF value.t = "list" THEN
        (IF ReprLen(value) > 100
         THEN StrVal("[list of length " \o NumText(Len(value.kids)) \o "]", 18)
         ELSE value)
    ELSE IF value.t = "bytes" THEN StrVal("[bytes: " \o NumText(value.n) \o " bytes]", 16)
    ELSE value

SanitizeLogData(data) ==
    DictVal([key \in DOMAIN data.kids |-> SanitizeValue(key, data.kids[key])])

kId == <<"i","d">>
kPassword == <<"P","a","s","s","w","o","r","d">>
kApiKey == <<"a","p","i","_","K","E","Y">>
kItems == <<"i","t","e","m","s">>
kMeta == <<"m","e","t","a">>

LogLeaves == {StrVal("v", 1), StrVal("w", 120), BytesVal(2)}

InnerDicts ==
    {DictVal(f) : f \in UNION {[D -> {StrVal("v", 1), StrVal("w", 120)}] :
                                  D \in {{kPassword}, {kId}}}}
    \cup {DictVal((kId :> StrVal("v", 1)) @@ (kApiKey :> StrVal("v", 1)))}

LogLists == {ListVal(q) : q \in UNION {[1..n -> InnerDicts] : n \in 1..MaxListLen}}

Merge(f, g) == [k \in DOMAIN f \cup DOMAIN g |-> IF k \in DOMAIN f THEN f[k] ELSE g[k]]

Optional(key, values) == {<<>>} \cup {(key :> v) : v \in values}

LogRecords ==
    {DictVal(Merge(a, Merge(b, c))) :
        a \in Optional(kPassword, LogLeaves),
        b \in Optional(kMeta, InnerDicts
                               \cup {DictVal((kItems :> ListVal(<<d>>))) : d \in InnerDicts}),
        c \in Optional(kItems, LogLists)}

NoLog == [set |-> FALSE, data |-> DictVal(<<>>), out |-> DictVal(<<>>)]

SanitizeCall(data) ==
    /\ ~logd.set
    /\ logd' = [set |-> TRUE, data |-> data, out |-> SanitizeLogData(data)]
    /\ UNCHANGED <<sessVars, aeadVars, tsc, tscOut, roc, rocOut, rec, recT, mig, png, pngOut, unl, fs, perm, sdir, kdf, strm, rituals>>

LogInit == logd = NoLog

NextSanitize == \E data \in LogRecords : SanitizeCall(data)

-----------------------------------------------------------------------------
(* A further SessionManager is constructed in the process (a test, a second *)
(* component) while the first one is in use: its __init__ runs              *)
(* _cleanup_stale_session_dirs on the same SESSIONS_DIR, without the first  *)
(* manager's mutex, and removes every subdirectory.                         *)
ConstructSecondManager ==
    /\ dirs # {}
    /\ dirs' = {}
    /\ UNCHANGED <<now, nextId, objs, live, heap, lock, stack, last, aeadVars, tsc, tscOut, roc, rocOut, rec, recT, mig, png, pngOut, unl, fs, perm, logd, sdir, kdf, strm, rituals>>

-----------------------------------------------------------------------------
(* end_session on the file system (sessions.py: end_session lines 266-279 *)
(* and _secure_delete_directory).  A file operation can raise OSError.    *)

FileNames == <<"f1", "f2">>
FileLengths == {0, 3}
NoFile == -1

(* what the loop body of _secure_delete_directory does to one file *)
FileOutcomes == {"ok", "open_raises", "write_raises", "unlink_raises"}

Op(op, f, n) == [op |-> op, f |-> f, n |-> n]

(* the operations made on file f of file_size bytes, in order *)
SecureDeleteFileOps(f, file_size, outcome) ==
    CASE outcome = "open_raises" -> <<>>
      [] outcome = "write_raises" -> <<Op("truncate", f, 0)>>
      [] outcome = "unlink_raises" ->
            <<Op("truncate", f, 0), Op("write_random", f, file_size), Op("flush", f, 0)>>
      [] OTHER ->
            <<Op("truncate", f, 0), Op("write_random", f, file_size), Op("flush", f, 0),
              Op("unlink", f, 0)>>

(* what is left of the file after the loop body *)
SecureDeleteFileLeft(outcome) ==
    CASE outcome = "open_raises" -> "plain"
      [] outcome = "write_raises" -> "empty"
      [] outcome = "unlink_raises" -> "random"
      [] OTHER -> "gone"

(* _secure_delete_directory, up to its rmtree: the files in rglob order *)
SecureDeleteOps(files, outcomes) ==
    LET ops(i) == IF files[FileNames[i]] = NoFile THEN <<>>
                  ELSE SecureDeleteFileOps(FileNames[i], files[FileNames[i]],
                                           outcomes[FileNames[i]])
    IN ops(1) \o ops(2)

NoDir == [pc |-> "none", secure |-> FALSE, exists |-> FALSE,
          files |-> [f \in {"f1", "f2"} |-> NoFile],
          left |-> [f \in {"f1", "f2"} |-> "gone"], ops |-> <<>>]

(* A session is created and plaintext files are decrypted into its directory. *)
DecryptInto(files) ==
    /\ sdir.pc = "none"
    /\ sdir' = [NoDir EXCEPT !.pc = "live", !.exists = TRUE, !.files = files,
                           !.left = [f \in {"f1", "f2"} |->
                                        IF files[f] = NoFile THEN "gone" ELSE "plain"]]
    /\ UNCHANGED <<sessVars, aeadVars, tsc, tscOut, roc, rocOut, rec, recT, mig, png, pngOut, unl, fs, perm, logd, kdf, strm, rituals>>

(* end_session(session_id, secure_delete), lines 266-279: the directory is *)
(* cleaned, an exception of the cleaning is logged, and the session is     *)
(* removed from the live map.                                              *)
EndSessionFiles(secure_delete, outcomes, rmtree_raises) ==
    /\ sdir.pc = "live"
    /\ LET walked == secure_delete
           left == [f \in {"f1", "f2"} |->
                       IF sdir.files[f] = NoFile THEN "gone"
                       ELSE IF walked THEN SecureDeleteFileLeft(outcomes[f]) ELSE "plain"]
           ops == IF walked THEN SecureDeleteOps(sdir.files, outcomes) ELSE <<>>
       IN sdir' = [sdir EXCEPT !.pc = "ended",
                           !.secure = secure_delete,
                           !.exists = rmtree_raises,
                           !.left = IF rmtree_raises THEN left
                                    ELSE [f \in {"f1", "f2"} |-> "gone"],
                           !.ops = ops \o <<Op("rmtree", "", 0)>>]
    /\ UNCHANGED <<sessVars, aeadVars, tsc, tscOut, roc, rocOut, rec, recT, mig, png, pngOut, unl, fs, perm, logd, kdf, strm, rituals>>

DirInit == sdir = NoDir

NextCleanup ==
    \/ \E files \in [{"f1", "f2"} -> FileLengths \cup {NoFile}] : DecryptInto(files)
    \/ \E secure_delete \in BOOLEAN, outcomes \in [{"f1", "f2"} -> FileOutcomes],
          rmtree_raises \in BOOLEAN :
          EndSessionFiles(secure_delete, outcomes, rmtree_raises)

-----------------------------------------------------------------------------
(* AF-KDF (crypto_core.py: derive_final_key).  SHA-256, HKDF, Argon2id and *)
(* scrypt are injective: a digest is the term of what went into it.        *)

FeatureVectors == {<<1, 2>>, <<2, 1>>, <<16777216, 2>>, <<16777217, 2>>}

(* PrivacyProfile of the registry: audio_weight in tenths, kdf_time, kdf_memory *)
PrivacyProfile(name) ==
    CASE name = "Quick Lock" ->
            [name |-> name, audio_weight |-> 0, kdf_time |-> 2, kdf_memory |-> 65536]
      [] name = "Ritual Lock" ->
            [name |-> name, audio_weight |-> 7, kdf_time |-> 4, kdf_memory |-> 131072]
      [] OTHER ->
            [name |-> "Black Vault", audio_weight |-> 10, kdf_time |-> 8,
             kdf_memory |-> 262144]

(* hash_audio_features *)
HashAudioFeatures(audio_features) ==
    <<"sha256", [i \in 1..Len(audio_features) |-> AsFloat32(audio_features[i])]>>

(* derive_final_key *)
AfKdf(passphrase, audio_features, profile, argon2_available) ==
    LET audio_hash == HashAudioFeatures(audio_features)
        intermediate_key == <<"hkdf", audio_hash, profile.name, passphrase>>
        salt == IF profile.audio_weight > 0
                THEN <<"sha256", audio_hash, profile.name>>
                ELSE <<"sha256", <<>>, profile.name>>
    IN IF argon2_available
       THEN <<"argon2id", salt, profile.kdf_time, profile.kdf_memory, intermediate_key>>
       ELSE <<"scrypt", salt, 0, profile.kdf_memory, intermediate_key>>

NoKdf == [set |-> FALSE, passphrase |-> "", profile |-> "", fa |-> <<>>, fb |-> <<>>,
          ka |-> <<>>, kb |-> <<>>]

(* derive_final_key is called twice, with the same passphrase and profile *)
DeriveTwice(passphrase, name, fa, fb, argon2_available) ==
    /\ ~kdf.set
    /\ kdf' = [set |-> TRUE, passphrase |-> passphrase, profile |-> name,
               fa |-> fa, fb |-> fb,
               ka |-> AfKdf(passphrase, fa, PrivacyProfile(name), argon2_available),
               kb |-> AfKdf(passphrase, fb, PrivacyProfile(name), argon2_available)]
    /\ UNCHANGED <<sessVars, aeadVars, tsc, tscOut, roc, rocOut, rec, recT, mig, png, pngOut, unl, fs, perm, logd, sdir, strm, rituals>>

KdfInit == kdf = NoKdf

NextKdf ==
    \E passphrase \in Passphrases, name \in RegisteredProfiles,
       fa \in FeatureVectors, fb \in FeatureVectors, argon2_available \in BOOLEAN :
        DeriveTwice(passphrase, name, fa, fb, argon2_available)

-----------------------------------------------------------------------------
(* A TemporalHashStreamer fed a frame sequence, next to compute_temporal_hash *)
(* on the same frames.                                                        *)

NoStream == [s |-> NoStreamer, frames |-> <<>>,
             out |-> [called |-> FALSE, validate |-> FALSE, raised |-> FALSE,
                      value |-> InitializeTscState("", 0)]]

(* compute_temporal_hash_streaming(device_pub, track_length) *)
ComputeTemporalHashStreaming(device_pub, track_length) ==
    /\ ~strm.s.made
    /\ strm' = [strm EXCEPT !.s = [NoStreamer EXCEPT
                                     !.made = TRUE,
                                     !.state = InitializeTscState(device_pub, track_length)]]
    /\ UNCHANGED <<sessVars, aeadVars, tsc, tscOut, roc, rocOut, rec, recT, mig, png, pngOut, unl, fs, perm, logd, sdir, kdf, rituals>>

(* streamer.add_frame(frame, timestamp), the frames arriving at the expected pace *)
StreamAddFrame(frame) ==
    /\ strm.s.made
    /\ ~strm.out.called
    /\ Len(strm.frames) < MaxFrames
    /\ strm' = [strm EXCEPT
                  !.s = AddFrameTo(@, frame, 5000 + ExpectedInterval * strm.s.frame_idx),
                  !.frames = Append(@, frame)]
    /\ UNCHANGED <<sessVars, aeadVars, tsc, tscOut, roc, rocOut, rec, recT, mig, png, pngOut, unl, fs, perm, logd, sdir, kdf, rituals>>

(* streamer.finalize(validate_timing) *)
StreamFinalize(validate_timing) ==
    /\ strm.s.made
    /\ ~strm.out.called
    /\ LET raises == FinalizeRaises(strm.s, validate_timing)
       IN strm' = [strm EXCEPT
                     !.s = IF raises THEN @ ELSE [@ EXCEPT !.finalized = TRUE],
                     !.out = [called |-> TRUE, validate |-> validate_timing,
                              raised |-> raises,
                              value |-> IF raises THEN InitializeTscState("", 0)
                                        ELSE strm.s.state]]
    /\ UNCHANGED <<sessVars, aeadVars, tsc, tscOut, roc, rocOut, rec, recT, mig, png, pngOut, unl, fs, perm, logd, sdir, kdf, rituals>>

StreamInit == strm = NoStream

NextStream ==
    \/ \E device_pub \in DevicePubs, track_length \in TrackLengths :
          ComputeTemporalHashStreaming(device_pub, track_length)
    \/ \E frame \in FrameSamples : StreamAddFrame(frame)
    \/ \E validate_timing \in BOOLEAN : StreamFinalize(validate_timing)

-----------------------------------------------------------------------------
(* The certificate store RITUALS_DIR (ritual_certificates.py): one file     *)
(* <rune_id>.roc.json per rune id, holding a certificate's JSON or bytes    *)
(* that from_json cannot read.                                              *)

StoredRuneIds == {"ECH-1", "ECH-2"}
TrackLists == {<<a, b>> : a, b \in AudioHashes}

(* ensure_identity_keypair: the identity of this installation *)
EnsureIdentityKeypair == CHOOSE kp \in Keypairs : kp.pub = "pubA"

UnreadableFile == [readable |-> FALSE, cert |-> NoCert]

(* RitualCertificatePayload.get_all_audio_hashes *)
GetAllAudioHashes(payload) ==
    IF payload.tracks # <<>> THEN {payload.tracks[i] : i \in 1..Len(payload.tracks)}
    ELSE IF payload.audio_hash # NoneStr /\ payload.audio_hash # "" THEN {payload.audio_hash}
    ELSE {}

NoLookup == [called |-> FALSE, audio_hash |-> NoneStr, found |-> FALSE, cert |-> NoCert]
NoRituals == [files |-> <<>>, out |-> NoLookup]

(* save_ritual_certificate(cert): the store after cert.to_json() is written *)
(* to <rune_id>.roc.json                                                    *)
SaveRitualCertificate(cert) ==
    (cert.payload.rune_id :> [readable |-> TRUE, cert |-> cert]) @@ rituals.files

(* save_ritual_certificate(create_ritual_certificate(...)) *)
SaveSingleTrack(rune_id, audio_hash) ==
    /\ rituals' = [files |-> SaveRitualCertificate(
                       Signed([version |-> "3.1",
                               owner_pub |-> B64Encode(EnsureIdentityKeypair.pub),
                               rune_id |-> rune_id, audio_hash |-> audio_hash,
                               tracks |-> <<audio_hash>>], EnsureIdentityKeypair)),
                   out |-> NoLookup]
    /\ UNCHANGED <<sessVars, aeadVars, tsc, tscOut, roc, rocOut, rec, recT, mig, png, pngOut, unl, fs, perm, logd, sdir, kdf, strm>>

(* save_ritual_certificate(create_multi_track_ritual_certificate(...)) *)
SaveMultiTrack(rune_id, tracks) ==
    /\ tracks # <<>>
    /\ rituals' = [files |-> SaveRitualCertificate(
                       Signed([version |-> "3.1",
                               owner_pub |-> B64Encode(EnsureIdentityKeypair.pub),
                               rune_id |-> rune_id, audio_hash |-> NoneStr,
                               tracks |-> tracks], EnsureIdentityKeypair)),
                   out |-> NoLookup]
    /\ UNCHANGED <<sessVars, aeadVars, tsc, tscOut, roc, rocOut, rec, recT, mig, png, pngOut, unl, fs, perm, logd, sdir, kdf, strm>>

(* A file of the store is truncated or overwritten with bytes that are not  *)
(* a certificate's JSON.                                                    *)
DamageFile(rune_id) ==
    /\ rune_id \in DOMAIN rituals.files
    /\ rituals.files[rune_id].readable
    /\ rituals' = [rituals EXCEPT !.files[rune_id] = UnreadableFile, !.out = NoLookup]
    /\ UNCHANGED <<sessVars, aeadVars, tsc, tscOut, roc, rocOut, rec, recT, mig, png, pngOut, unl, fs, perm, logd, sdir, kdf, strm>>

(* load_certificate_by_audio_hash(audio_hash): the files come in the order  *)
(* of the directory listing, which is any order; a file that cannot be read *)
(* is skipped; the first certificate whose payload.audio_hash is the hash   *)
(* is returned.                                                             *)
LoadCertificateByAudioHash(audio_hash) ==
    /\ ~rituals.out.called
    /\ LET matching == {r \in DOMAIN rituals.files :
                           /\ rituals.files[r].readable
                           /\ rituals.files[r].cert.payload.audio_hash = audio_hash}
       IN IF matching = {}
          THEN rituals' = [rituals EXCEPT !.out = [NoLookup EXCEPT !.called = TRUE,
                                                                   !.audio_hash = audio_hash]]
          ELSE \E r \in matching :
                  rituals' = [rituals EXCEPT !.out = [called |-> TRUE, audio_hash |-> audio_hash,
                                                      found |-> TRUE,
                                                      cert |-> rituals.files[r].cert]]
    /\ UNCHANGED <<sessVars, aeadVars, tsc, tscOut, roc, rocOut, rec, recT, mig, png, pngOut, unl, fs, perm, logd, sdir, kdf, strm>>

RitualsInit == rituals = NoRituals

NextRituals ==
    \/ \E rune_id \in StoredRuneIds, audio_hash \in AudioHashes :
          SaveSingleTrack(rune_id, audio_hash)
    \/ \E rune_id \in StoredRuneIds, tracks \in TrackLists : SaveMultiTrack(rune_id, tracks)
    \/ \E rune_id \in StoredRuneIds : DamageFile(rune_id)
    \/ \E audio_hash \in AudioHashes : LoadCertificateByAudioHash(audio_hash)

ThreadStep(t) ==
    \/ Call(t)
    \/ Acquire(t)
    \/ CreateSession(t)
    \/ GetSession(t)
    \/ GetSessionByVault(t)
    \/ EndSession(t)
    \/ ExtendSession(t)
    \/ CleanupExpiredSessions(t)
    \/ ListActiveSessions(t)
    \/ EndAllSessions(t)

SessionInit ==
    /\ now = 0
    /\ nextId = 1
    /\ objs = <<>>
    /\ live = {}
    /\ dirs = {}
    /\ heap = <<>>
    /\ lock = Free
    /\ stack = [t \in Threads |-> <<>>]
    /\ last = NoCall

Init ==
    /\ SessionInit
    /\ AeadInit
    /\ TscInit
    /\ RocInit
    /\ RecInit
    /\ MigInit
    /\ StegoInit
    /\ UnlockInit
    /\ ConstructInit
    /\ PermInit
    /\ LogInit
    /\ DirInit
    /\ KdfInit
    /\ StreamInit
    /\ RitualsInit

Next == Tick \/ \E t \in Threads : ThreadStep(t)

NextManagers == Next \/ ConstructSecondManager

Spec == Init /\ [][Next]_vars

SpecAead == Init /\ [][NextAead]_vars

SpecTsc == Init /\ [][NextTsc]_vars

SpecTiming == Init /\ [][NextTiming]_vars

SpecRoc == Init /\ [][NextRoc]_vars

SpecRecovery == Init /\ [][NextRecovery]_vars

SpecRecoveryThreads == Init /\ [][NextRecoveryThreads]_vars

SpecMigration == Init /\ [][NextMigration]_vars

SpecStego == Init /\ [][NextStego]_vars

SpecUnlock == Init /\ [][NextUnlock]_vars

SpecConstruct == Init /\ [][NextConstruct]_vars

SpecPermute == Init /\ [][NextPermute]_vars

SpecSanitize == Init /\ [][NextSanitize]_vars

SpecManagers == Init /\ [][NextManagers]_vars

SpecCleanup == Init /\ [][NextCleanup]_vars

SpecKdf == Init /\ [][NextKdf]_vars

SpecStream == Init /\ [][NextStream]_vars

SpecRituals == Init /\ [][NextRituals]_vars

-----------------------------------------------------------------------------
(* Properties of the session manager *)

(* Thread t has a call of fn in progress that made a nested call. *)
InCall(t, fn) ==
    \E i \in 1..Len(stack[t]) : stack[t][i].fn = fn /\ stack[t][i].pc = "call"

(* Thread t waits for the mutex that it holds itself: no step of any thread *)
(* releases it, so the call never returns.                                  *)
WaitsForOwnLock(t) ==
    /\ stack[t] # <<>>
    /\ Top(t).pc = "lock"
    /\ lock = t

AllZero(bytes) == \A i \in 1..Len(bytes) : bytes[i] = 0

Ended == DOMAIN objs \ live

(* C1: a get_session call made when now > expires_at completes and returns  *)
(* None, never the session; after it the session is not in the live map and *)
(* its directory does not exist.  As a property of states: a get_session    *)
(* call that found its session expired is never stopped for good, and a     *)
(* completed get_session call that returned a session returned it no later  *)
(* than its expiry.                                                         *)
C1_ExpiredGetReturnsNone ==
    /\ \A t \in Threads : InCall(t, "get_session") => ~WaitsForOwnLock(t)
    /\ last.fn = "get_session" /\ last.res # None =>
          /\ last.res = last.sid
          /\ ~IsExpired(objs[last.res], last.at)

(* C2: once a session has left the live map, its master_key is None and the *)
(* bytes object that held the key contains only zero bytes.                 *)
C2_KeyZeroized ==
    \A sid \in Ended :
        /\ objs[sid].master_key = NoKey
        /\ AllZero(heap[sid])

(* C4: every live session has expires_at - now <= max_ttl_seconds of its    *)
(* profile, and an extend_session call sets the remaining time (it is not   *)
(* stopped for good before it does).                                        *)
C4_RemainingAtMostMax ==
    /\ \A sid \in live :
          objs[sid].expires_at - now <= ForProfile(objs[sid].profile).max_ttl_seconds
    /\ \A t \in Threads :
          InCall(t, "extend_session") /\ Top(t).sid \in live => ~WaitsForOwnLock(t)

(* C5: create_session yields expires_at - created_at = min(ttl, max_ttl) for *)
(* a given ttl and = default_ttl when none is given, and registers the       *)
(* session in the live map with last_activity = created_at.                  *)
C5_ProfileClamp ==
    [][\A t \in Threads :
          Running(t, "create_session") /\ stack'[t] = <<>> =>
              LET f == Top(t)
                  sid == last'.res
                  cfg == ForProfile(f.profile)
              IN /\ sid \notin DOMAIN objs
                 /\ sid \in live'
                 /\ objs'[sid].profile = f.profile
                 /\ objs'[sid].created_at = now
                 /\ objs'[sid].last_activity = objs'[sid].created_at
                 /\ objs'[sid].expires_at - objs'[sid].created_at =
                       IF f.given
                       THEN (IF f.arg < cfg.max_ttl_seconds THEN f.arg
                             ELSE cfg.max_ttl_seconds)
                       ELSE cfg.default_ttl_seconds]_vars

(* C5, witness: a session was created with a requested ttl above the max of *)
(* its profile and lives with exactly the max.                              *)
C5_Witness ==
    /\ last.fn = "create_session"
    /\ last.given
    /\ last.arg > ForProfile(last.profile).max_ttl_seconds
    /\ last.res \in live
    /\ objs[last.res].expires_at - objs[last.res].created_at
          = ForProfile(last.profile).max_ttl_seconds

(* C6: extend_session returns True on a live, unexpired session, with the    *)
(* remaining time min(old + a, max), and False on an unknown or expired id:  *)
(* every call returns one of the two.                                        *)
C6_ExtendReturns ==
    /\ \A t \in Threads : InCall(t, "extend_session") => ~WaitsForOwnLock(t)
    /\ last.fn = "extend_session" => last.res \in {0, 1}

(* C7: cleanup_expired_sessions ends exactly the expired sessions and        *)
(* returns their number: a call that found expired sessions goes on to end   *)
(* them, and a completed call leaves no expired session in the live map.     *)
C7_CleanupEndsExpired ==
    /\ \A t \in Threads :
          InCall(t, "cleanup_expired_sessions") => ~WaitsForOwnLock(t)
    /\ last.fn = "cleanup_expired_sessions" =>
          \A sid \in live : ~IsExpired(objs[sid], last.at)

(* C8: end_all_sessions empties the live map (removing directories and keys) *)
(* and list_active_sessions returns the sessions that are not expired: both  *)
(* calls complete.                                                           *)
C8_EndAllAndList ==
    /\ \A t \in Threads :
          (InCall(t, "end_all_sessions") \/ InCall(t, "list_active_sessions"))
              => ~WaitsForOwnLock(t)
    /\ last.fn = "end_all_sessions" => live = {} /\ dirs = {}

-----------------------------------------------------------------------------
(* Properties of the AEAD envelope *)

(* C3: decrypt_bytes(encrypt_bytes(pt, key, ctx), key) = pt for every        *)
(* plaintext, key and context, the contexts of the pipeline and of the vault *)
(* writer included: decryption with the encryption key succeeds and returns  *)
(* the plaintext.                                                            *)
C3_AeadRoundTrip ==
    aeadOut.set /\ aeadOut.key = aeadIn.key =>
        aeadOut.ok /\ aeadOut.data = aeadIn.data

-----------------------------------------------------------------------------
(* C9: once finalize has succeeded the streamer is immutable: every step    *)
(* from a finalized streamer leaves the chain state, frame_idx, timing_data *)
(* and the finalized flag unchanged; an add_frame made on it raises, and a  *)
(* finalize made on it does not raise and returns the same hash.            *)
C9_ImmutableAfterFinalize ==
    [][tsc.finalized =>
          /\ tsc'.state = tsc.state
          /\ tsc'.frame_idx = tsc.frame_idx
          /\ tsc'.timing_data = tsc.timing_data
          /\ tsc'.finalized
          /\ tscOut'.op = "add_frame" => tscOut'.raised
          /\ tscOut'.op = "finalize" => ~tscOut'.raised /\ tscOut'.value = tsc.state]_vars

C9_Witness ==
    /\ tsc.finalized
    /\ tsc.frame_idx >= 2
    /\ tscOut.op = "add_frame"
    /\ tscOut.raised

(* The intervals between consecutive frames of the streamer. *)
Intervals ==
    {<<i, tsc.timing_data[i + 1] - tsc.timing_data[i]>> : i \in 1..(Len(tsc.timing_data) - 1)}

(* More than 10% of the intervals below 0.0256 s, or more than 20% above *)
(* 0.1152 s.                                                             *)
TimingRejected ==
    \/ 10 * Cardinality({iv \in Intervals : iv[2] < 256}) > Cardinality(Intervals)
    \/ 5 * Cardinality({iv \in Intervals : iv[2] > 1152}) > Cardinality(Intervals)

(* C10, as stated: after any finalize(validate_timing = true) on a streamer *)
(* with at least two frames, the call was rejected exactly when more than   *)
(* 10% of the intervals are below 0.032 s x 0.8 or more than 20% are above  *)
(* 0.032 s x 1.2 x 3; finalize(false) accepts and returns the hash.         *)
C10_TimingGate ==
    /\ tscOut.op = "finalize" /\ tscOut.validate /\ tsc.frame_idx >= 2
          => (tscOut.raised <=> TimingRejected)
    /\ tscOut.op = "finalize" /\ ~tscOut.validate
          => ~tscOut.raised /\ tscOut.value = tsc.state /\ tsc.finalized

(* C10, amended: the gate applies to a finalize(validate_timing = true) on  *)
(* a streamer that is not finalized yet; a rejected call leaves it not      *)
(* finalized.  On a finalized streamer every finalize returns the hash.     *)
C10_TimingGateFirstFinalize ==
    /\ tscOut.op = "finalize" /\ tscOut.validate /\ ~tscOut.again /\ tsc.frame_idx >= 2
          => /\ tscOut.raised <=> TimingRejected
             /\ tscOut.raised <=> ~tsc.finalized
             /\ (\A iv \in Intervals : iv[2] = 160) => tscOut.raised
    /\ tscOut.op = "finalize" /\ (~tscOut.validate \/ tscOut.again)
          => ~tscOut.raised /\ tscOut.value = tsc.state /\ tsc.finalized

(* Playback at twice the real pace: every interval is 0.016 s, and the call *)
(* was rejected.                                                            *)
C10_Witness ==
    /\ tscOut.op = "finalize" /\ tscOut.validate /\ ~tscOut.again
    /\ tsc.frame_idx >= 2
    /\ \A iv \in Intervals : iv[2] = 160
    /\ tscOut.raised

-----------------------------------------------------------------------------
(* The three conditions of verification, read off the certificate itself:  *)
(* its signature was made by the key named in payload.owner_pub, over the  *)
(* payload as it is now.                                                   *)
SignatureByOwner ==
    /\ roc.signedBy # ""
    /\ roc.payload.owner_pub = B64Encode(roc.signedBy)
    /\ roc.signedPayload = roc.payload

AudioHashExpected == rocOut.expected = NoneStr \/ rocOut.expected = roc.payload.audio_hash

OwnerAllowed ==
    ~rocOut.listed \/ \E k \in rocOut.allowed : roc.payload.owner_pub = B64Encode(k)

(* C11: verify_ritual_certificate never raises and returns true exactly when *)
(* the signature is the owner's over the payload, the expected audio hash is *)
(* absent or the payload's legacy audio_hash, and the allow-list is absent   *)
(* or contains the owner; so a fresh certificate verifies, and one whose     *)
(* audio_hash was changed afterwards does not.                               *)
C11_VerifyExactly ==
    rocOut.set =>
        /\ ~rocOut.raised
        /\ rocOut.result <=> (SignatureByOwner /\ AudioHashExpected /\ OwnerAllowed)
        /\ roc.touched = {} /\ AudioHashExpected /\ OwnerAllowed => rocOut.result
        /\ "audio_hash" \in roc.touched /\ roc.payload.audio_hash # roc.signedPayload.audio_hash
              => ~rocOut.result

(* A certificate whose audio_hash alone was changed has been refused. *)
C11_Witness ==
    /\ rocOut.set
    /\ roc.touched = {"audio_hash"}
    /\ rocOut.expected = NoneStr
    /\ ~rocOut.listed
    /\ ~rocOut.result

-----------------------------------------------------------------------------
Returned(t) == recT[t].pc = "idle" /\ recT[t].done

(* C12: validate_and_mark_used counts atomically: once the concurrent calls *)
(* have all returned, use_count is higher by exactly the number of calls    *)
(* that returned True, and last_used_timestamp is the time stamp of one of  *)
(* them.                                                                    *)
C12_AtomicCount ==
    (\A t \in RecCallers : recT[t].pc = "idle") =>
        /\ rec.use_count = rec.granted
        /\ rec.granted > 0 => rec.last_used_timestamp \in TimestampInputs

(* The input codes that are spellings of a generated code. *)
ValidSpellings == { <<"A", "1", "-", "B", "2">>, <<"a", "1", " ", "b", "2">> }

-----------------------------------------------------------------------------
(* C14: migrate_vault(v, "3.1.0", "3.1.0") returns v itself, unchanged; and *)
(* when a 3.0.0 -> 3.1.0 migration is followed by a migration of its result *)
(* to 3.1.0 again, the second result is the same document as the first.     *)
C14_MigrationIdempotent ==
    /\ \A i \in 1..Len(mig.calls) :
          LET c == mig.calls[i]
          IN c.from = "3.1.0" /\ c.to = "3.1.0" =>
                ~c.raised /\ c.res = c.src /\ c.after = c.before /\ c.srcAfter = c.before
    /\ \A i \in 1..(Len(mig.calls) - 1) :
          LET c == mig.calls[i]
              d == mig.calls[i + 1]
          IN /\ c.from = "3.0.0" /\ c.to = "3.1.0"
             /\ d.src = c.res /\ d.from \in {"3.0.0", "3.1.0"} /\ d.to = "3.1.0"
             => ~d.raised /\ d.after = c.after

(* A vault without recovery and with a single-track roc was migrated, and *)
(* the result was put through the 3.0.0 -> 3.1.0 migration once more.     *)
C14_Witness ==
    /\ Len(mig.calls) >= 2
    /\ mig.calls[1].from = "3.0.0" /\ mig.calls[1].to = "3.1.0"
    /\ "recovery" \notin DOMAIN mig.calls[1].before
    /\ "roc" \in DOMAIN mig.calls[1].before
    /\ "tracks" \notin DOMAIN mig.calls[1].before["roc"]
    /\ "tracks" \in DOMAIN mig.calls[1].after["roc"]
    /\ mig.calls[2].src = mig.calls[1].res
    /\ mig.calls[2].from = "3.0.0" /\ mig.calls[2].to = "3.1.0"

-----------------------------------------------------------------------------
(* Capacity of the carrier and length of the payload's JSON text, in bytes. *)
CarrierCapacity ==
    (png.carrier.height * png.carrier.width * (IF png.carrier.mode = "RGBA" THEN 4 ELSE 3) * 2) \div 8
PayloadJsonLen == 11 + png.payload.riv.n

(* C15: embed raises exactly on a carrier whose capacity is below 15 plus   *)
(* the length of the payload's JSON; on every other carrier, extract of the *)
(* embedded image returns the payload.                                      *)
C15_StegoRoundTrip ==
    /\ png.made => (png.raised <=> CarrierCapacity < 15 + PayloadJsonLen)
    /\ pngOut.set /\ pngOut.of = "image" =>
          pngOut.kind = "payload" /\ pngOut.payload = png.payload

-----------------------------------------------------------------------------
(* C16: a failed unlock with a wrong passphrase or wrong audio is an AEAD   *)
(* failure at decrypt, and two unlocks that failed for different reasons    *)
(* (rune id, tag under either AEAD, nonce) gave the caller the same error:  *)
(* the same type and the same message.                                      *)
C16_OneError ==
    /\ unl.last.set /\ ~unl.last.right => unl.last.cause \in {"tag_chacha", "tag_aesgcm"}
    /\ unl.prev.set /\ unl.last.set /\ unl.prev.cause # unl.last.cause =>
          unl.prev.kind = unl.last.kind /\ unl.prev.msg = unl.last.msg

-----------------------------------------------------------------------------
(* C17: a session created for Black Vault with a requested TTL of 3600 s    *)
(* has at most 300 s left, at its creation and at every later time.         *)
C17_BlackVaultRemaining ==
    /\ last.fn = "create_session"
    /\ last.profile = "Black Vault"
    /\ last.given
    /\ last.arg = 3600
    /\ last.res \in DOMAIN objs
    => TimeRemaining(objs[last.res], now) <= 300

(* C18: a session created with no TTL given lives for the session TTL the   *)
(* registry declares for its profile: 3600 s for Quick Lock, 1200 s for     *)
(* Ritual Lock, 300 s for Black Vault.                                      *)
C18_DefaultTtlOfRegistry ==
    /\ last.fn = "create_session"
    /\ last.profile \in RegisteredProfiles
    /\ ~last.given
    /\ last.res \in DOMAIN objs
    => objs[last.res].expires_at - objs[last.res].created_at
          = SessionTtlSeconds(last.profile)

-----------------------------------------------------------------------------
(* C19: immediately after a SessionManager is constructed the sessions root *)
(* exists with mode 0700 and holds no subdirectory.                         *)
C19_RootPrivateAndPurged ==
    fs.fresh =>
        /\ fs.exists
        /\ fs.mode = Mode700
        /\ \A e \in EntryNames : fs.entries[e] \notin {"dir", "locked_dir"}

-----------------------------------------------------------------------------
(* C20: for a frame sequence F of two or more frames and a permutation that *)
(* changes it, the temporal hash of the permuted sequence differs from the  *)
(* hash of F (same device key and track length, SHA-256 collision-free).    *)
C20_OrderSensitive ==
    perm.set /\ Len(perm.F) >= 2 /\ perm.G # perm.F => perm.hG.hash # perm.hF.hash

IsFloat32(F) == \A i \in 1..Len(F) : AsFloat32(F[i]) = F[i]

(* C20, amended: the same for a sequence whose frames hold float32 values   *)
(* (as the framing produces them); frames of a wider type that differ only  *)
(* below float32 precision are hashed alike.                                *)
C20_OrderSensitiveFloat32 ==
    perm.set /\ Len(perm.F) >= 2 /\ perm.G # perm.F /\ IsFloat32(perm.F) =>
        ~perm.hF.raised /\ ~perm.hG.raised /\ perm.hG.hash # perm.hF.hash

(* C20, witness: three float32 frames, two of them equal, permuted into a   *)
(* different sequence with the same last frame, and the hashes differ.      *)
C20_Witness ==
    /\ perm.set
    /\ Len(perm.F) = 3
    /\ IsFloat32(perm.F)
    /\ perm.F[2] = perm.F[3]
    /\ perm.G # perm.F
    /\ perm.G[3] = perm.F[3]
    /\ perm.hG.hash # perm.hF.hash

-----------------------------------------------------------------------------
RECURSIVE HasSensitive(_)
(* v holds a sensitive key at some path through dicts and lists *)
HasSensitive(v) ==
    CASE v.t = "dict" ->
            \E k \in DOMAIN v.kids : IsSensitiveField(k) \/ HasSensitive(v.kids[k])
      [] v.t = "list" -> \E i \in 1..Len(v.kids) : HasSensitive(v.kids[i])
      [] OTHER -> FALSE

RECURSIVE RedactedAtPaths(_, _)
(* every sensitive key reached in v through dicts and lists is reached in   *)
(* out by the same path, and holds "[REDACTED]" there                       *)
RedactedAtPaths(v, out) ==
    CASE v.t = "dict" ->
            /\ out.t = "dict"
            /\ \A k \in DOMAIN v.kids :
                  IF IsSensitiveField(k)
                  THEN k \in DOMAIN out.kids /\ out.kids[k] = Redacted
                  ELSE HasSensitive(v.kids[k]) =>
                          k \in DOMAIN out.kids /\ RedactedAtPaths(v.kids[k], out.kids[k])
      [] v.t = "list" ->
            HasSensitive(v) =>
                /\ out.t = "list"
                /\ Len(out.kids) = Len(v.kids)
                /\ \A i \in 1..Len(v.kids) : RedactedAtPaths(v.kids[i], out.kids[i])
      [] OTHER -> TRUE

(* C21: for a record that holds a sensitive key at some path through nested *)
(* records and lists of records, sanitize_log_data returns a record that    *)
(* holds "[REDACTED]" at that path.                                         *)
C21_RedactionTotal == logd.set => RedactedAtPaths(logd.data, logd.out)

-----------------------------------------------------------------------------
(* C22: no call of the session manager comes to wait for the manager's      *)
(* mutex while its own thread holds it (from where it could never return).  *)
C22_NoSelfAcquire == \A t \in Threads : ~WaitsForOwnLock(t)

-----------------------------------------------------------------------------
(* C23: while a session is in a manager's live map its directory exists,    *)
(* also when another SessionManager is constructed in the meantime.         *)
C23_LiveSessionHasDir == \A sid \in live : sid \in dirs

-----------------------------------------------------------------------------
(* C24: once end_session has removed a session from the live map, its       *)
(* directory and every plaintext file in it are gone, also when a file      *)
(* operation raised.                                                        *)
C24_EndedSessionLeavesNothing ==
    sdir.pc = "ended" => ~sdir.exists /\ \A f \in {"f1", "f2"} : sdir.left[f] = "gone"

Before(ops, a, b) ==
    \E i, j \in 1..Len(ops) : i < j /\ ops[i] = a /\ ops[j] = b

(* C25: with secure delete, every file is overwritten with random data of   *)
(* its length and fsynced before it is unlinked, and the tree is removed    *)
(* after the files; without, the directory is removed by rmtree alone.      *)
C25_OverwriteSyncUnlink ==
    sdir.pc = "ended" =>
        IF sdir.secure
        THEN \A f \in {"f1", "f2"} : sdir.files[f] # NoFile =>
                /\ Before(sdir.ops, Op("write_random", f, sdir.files[f]), Op("fsync", f, 0))
                /\ Before(sdir.ops, Op("fsync", f, 0), Op("unlink", f, 0))
                /\ Before(sdir.ops, Op("unlink", f, 0), Op("rmtree", "", 0))
        ELSE sdir.ops = <<Op("rmtree", "", 0)>>

-----------------------------------------------------------------------------
(* C26: for a profile with audio_weight = 0 derive_final_key gives the same *)
(* key for the same passphrase whatever the feature vector; for a profile   *)
(* with audio_weight > 0 different feature hashes give different keys.      *)
C26_AudioWeightZeroIgnoresAudio ==
    kdf.set =>
        IF PrivacyProfile(kdf.profile).audio_weight = 0
        THEN kdf.ka = kdf.kb
        ELSE HashAudioFeatures(kdf.fa) # HashAudioFeatures(kdf.fb) => kdf.ka # kdf.kb

-----------------------------------------------------------------------------
(* C27: a streamer fed a non-empty frame sequence in order and finalized    *)
(* with validate_timing = false returns the hash compute_temporal_hash      *)
(* returns for the same frames, device key and track length, and its        *)
(* frame_idx is the number of frames added.                                 *)
C27_StreamerEqualsBatch ==
    strm.out.called /\ ~strm.out.validate /\ strm.frames # <<>> =>
        /\ ~strm.out.raised
        /\ strm.out.value = ComputeTemporalHash(strm.frames, strm.s.state.device_pub,
                                                strm.s.state.track_length).hash
        /\ ~ComputeTemporalHash(strm.frames, strm.s.state.device_pub,
                                strm.s.state.track_length).raised
        /\ strm.s.frame_idx = Len(strm.frames)

(* C27, witness: three frames, one of them not a float32 value, were fed    *)
(* and the streamer was finalized without timing validation.                *)
C27_Witness ==
    /\ strm.out.called
    /\ ~strm.out.validate
    /\ ~strm.out.raised
    /\ Len(strm.frames) = 3
    /\ ~IsFloat32(strm.frames)
    /\ strm.s.frame_idx = 3
    /\ Len(strm.out.value.chain) = 3

(* C30: finalize on a streamer to which no frame was added raises; it does  *)
(* not return a temporal hash.                                              *)
C30_NoHashFromNoFrames ==
    tscOut.op = "finalize" /\ tsc.frame_idx = 0 => tscOut.raised

-----------------------------------------------------------------------------
(* C28: migrate_vault does not modify its input dictionary: after every     *)
(* call, the caller's input, with its nested roc and version_info records,  *)
(* equals its value before the call.                                        *)
C28_InputKept ==
    \A i \in 1..Len(mig.calls) : mig.calls[i].srcAfter = mig.calls[i].before

-----------------------------------------------------------------------------
(* C29: load_certificate_by_audio_hash(h) returns a certificate exactly     *)
(* when some readable stored certificate binds h in any of its tracks, and  *)
(* the certificate returned binds h.                                        *)
C29_FoundWhenBound ==
    rituals.out.called =>
        /\ rituals.out.found <=>
              \E r \in DOMAIN rituals.files :
                 /\ rituals.files[r].readable
                 /\ rituals.out.audio_hash \in GetAllAudioHashes(rituals.files[r].cert.payload)
        /\ rituals.out.found =>
              rituals.out.audio_hash \in GetAllAudioHashes(rituals.out.cert.payload)

=============================================================================
